---- MODULE Spec2Model ----
(***************************************************************************)
(* Model of the RAG chatbot backend core:                                  *)
(*   - AIGenerator (backend/ai_generator.py): the multi-round tool         *)
(*     orchestration loop of generate_response;                            *)
(*   - ToolManager, CourseSearchTool, CourseOutlineTool                    *)
(*     (backend/search_tools.py): the tool registry and the citation       *)
(*     state (last_sources) of the search tool.                            *)
(*                                                                         *)
(* Spec      one generate_response call, step by step; the LLM client and  *)
(*           the tool manager handed to it are the environment.            *)
(* FairSpec  Spec plus weak fairness of every step (each model call and    *)
(*           each tool call returns or raises).                            *)
(* ToolSpec  a ToolManager with its tools, driven by register_tool,        *)
(*           execute_tool, get_last_sources and reset_sources.             *)
(* SearchToolSpec  CourseSearchTool.execute applied once to every answer   *)
(*           the store and the catalog can give.                           *)
(* RaceSpec  two user queries served in parallel by one ToolManager and    *)
(*           one CourseSearchTool.                                         *)
(***************************************************************************)
EXTENDS Integers, Sequences, FiniteSets, TLC

VARIABLES
    \* ---- AIGenerator.generate_response (one call) ----
    pc,               \* position in the code of generate_response
    tools,            \* argument tools: TRUE when a non-empty schema list is given
    tool_manager,     \* argument tool_manager: TRUE when a registry is given
    round_num,        \* loop variable of _handle_tool_execution
    current_response, \* the response being processed
    messages,         \* the conversation list
    tool_results,     \* the tool_result batch under construction
    idx,              \* position of the content-block iteration
    final_response,   \* the response of the forced final call
    result,           \* the value generate_response returned
    calls,            \* log: the parameters of every client.messages.create call
    executed,         \* log: the ids of the tool-use blocks handed to execute_tool
    batches,          \* log: number of responses whose blocks were iterated for execution
    emitted,          \* environment: content blocks the model has emitted in this query
    conversation_history, \* generate_response argument: the history text, or None
    malformed,        \* environment: the client may return malformed content blocks
    unknown_tools,    \* environment: the model may ask for a tool that is not registered
    \* ---- ToolManager and its tools ----
    registry,         \* ToolManager.tools: name -> tool object
    last_sources,     \* tool object -> its last_sources attribute
    last_exec,        \* log: what the latest execute_tool call did
    last_op,          \* log: the latest operation performed on the registry
    last_reg,         \* log: what the latest register_tool call did
    latest,           \* log: name -> the tool object most recently registered under it
    cleared,          \* log: the tools whose citations the latest reset_sources emptied
    \* ---- one CourseSearchTool.execute call ----
    search_in,        \* the arguments and what the store and the catalog answer
    \* ---- two user queries in parallel ----
    queries,          \* query -> its position, its own citations and what it read
    owner,            \* log: the query whose execution wrote the stored citations
    overlapped,       \* log: a query took a step while the other was in flight
    \* ---- the vector index adapter ----
    store             \* VectorStore: its construction and its latest search

gen_vars  == <<pc, tools, tool_manager, round_num, current_response, messages,
               tool_results, idx, final_response, result, calls, executed, batches, emitted,
               conversation_history, malformed, unknown_tools, unknown_tools>>
tool_vars == <<registry, last_sources, last_exec, last_op, last_reg, latest, cleared>>
query_vars == <<search_in, queries, owner, overlapped, store>>
vars      == <<gen_vars, tool_vars, query_vars>>

(***************************************************************************)
(* Bounds and program constants                                            *)
(***************************************************************************)
MaxBlocks == 2          \* content blocks in one model response
MaxQueryBlocks == 4     \* content blocks the model emits over one query
MAX_TOOL_ROUNDS == 2    \* AIGenerator.MAX_TOOL_ROUNDS

NoText   == "<no text attribute>"   \* a block without a text attribute
NoResult == "<nothing returned>"    \* generate_response has not returned

Query        == "What is covered in lesson 2?"
AnswerText   == "Lesson 2 covers functions."
SearchName   == "search_course_content"
OutlineName  == "get_course_outline"
UnknownName  == "nonexistent_tool"   \* a name no tool declares

\* faulty variant of create_error_response: the technical message is returned
create_error_response_verbatim(error_message) == error_message

\* the messages of the exceptions a model call raises
ApiErrors == {"Connection timeout", "invalid x-api-key"}
\* the message of the AttributeError raised by reading .type of a block
\* that has none
NoTypeError == "'dict' object has no attribute 'type'"

\* AIGenerator._create_error_response: the fixed apology, whatever the message
create_error_response(error_message) ==
    "I apologize, but I encountered an error while processing your request. Please try rephrasing your question or ask something else."

NoTextApology == "I apologize, but I couldn't generate a proper response."

(***************************************************************************)
(* Content blocks, responses, messages                                     *)
(***************************************************************************)
TextBlock(t)       == [type |-> "text", text |-> t, id |-> 0, name |-> ""]
ToolUseBlock(i, n) == [type |-> "tool_use", text |-> NoText, id |-> i, name |-> n]
\* a malformed content block: it has neither a type nor a text attribute
MalformedBlock     == [type |-> "<no type attribute>", text |-> NoText, id |-> 0, name |-> ""]

BlockKinds == {"text", "empty_text", "tool_use", "outline_use"}

\* the malformed contents: the loop stops at the malformed block, so it is
\* the last block, alone or after a tool-use block
MalformedShapes == {<<"malformed">>, <<"tool_use", "malformed">>}

RECURSIVE SeqsUpTo(_, _)
SeqsUpTo(S, n) ==
    IF n = 0 THEN {<<>>}
    ELSE LET shorter == SeqsUpTo(S, n - 1)
         IN  shorter \cup {Append(s, x) : s \in {t \in shorter : Len(t) = n - 1}, x \in S}

\* the content of the call_no-th response: every tool-use block carries a
\* call identifier that is unique in the query
ContentOf(shape, call_no) ==
    [i \in 1..Len(shape) |->
        IF shape[i] = "tool_use" THEN ToolUseBlock(10 * call_no + i, SearchName)
        ELSE IF shape[i] = "outline_use" THEN ToolUseBlock(10 * call_no + i, OutlineName)
        ELSE IF shape[i] = "unknown_use" THEN ToolUseBlock(10 * call_no + i, UnknownName)
        ELSE IF shape[i] = "empty_text" THEN TextBlock("")
        ELSE IF shape[i] = "malformed" THEN MalformedBlock
        ELSE TextBlock(AnswerText)]

Min(a, b) == IF a < b THEN a ELSE b

\* the responses the model may give to the call_no-th call when it has
\* already emitted `sofar` content blocks in this query
Responses(call_no, sofar) ==
    {[stop_reason |-> s, content |-> ContentOf(shape, call_no)] :
        s \in {"tool_use", "end_turn"},
        shape \in SeqsUpTo(IF unknown_tools THEN BlockKinds \cup {"unknown_use"}
                            ELSE BlockKinds,
                            Min(MaxBlocks, MaxQueryBlocks - sofar)) \cup
                  {m \in MalformedShapes :
                      malformed /\ Len(m) <= Min(MaxBlocks, MaxQueryBlocks - sofar)}}

NoResponse == [stop_reason |-> "none", content |-> <<>>]

UserQuery(q)        == [role |-> "user", kind |-> "query", text |-> q, content |-> <<>>]
AssistantTurn(c)    == [role |-> "assistant", kind |-> "blocks", text |-> "", content |-> c]
ToolResultTurn(trs) == [role |-> "user", kind |-> "tool_results", text |-> "", content |-> trs]

\* AIGenerator._extract_text_response
RECURSIVE first_text(_, _)
first_text(content, i) ==
    IF i > Len(content) THEN NoTextApology
    ELSE IF content[i].text # NoText /\ content[i].text # "" THEN content[i].text
    ELSE first_text(content, i + 1)

\* faulty variant of extract_text_response: the first block is read unguarded
extract_text_response_first_block(response) ==
    IF Len(response.content) = 0 THEN "<IndexError>" ELSE response.content[1].text

extract_text_response(response) == first_text(response.content, 1)

(***************************************************************************)
(* search_tools.py: the tools                                              *)
(***************************************************************************)
MaxMatches == 3         \* matches in one Search Result Set
MaxExecs == 2           \* tool executions of one user query

NoneStr   == "<None>"           \* an absent string (Python None)
NoLesson  == <<>>               \* an absent lesson number (Python None)
Lesson(n) == <<n>>              \* a present lesson number

CourseTitle   == "Intro to Programming"
CourseName    == "Intro"
ChunkText     == "chunk text"
SearchError   == "No course found matching 'Intro'"
LessonNumbers == {NoLesson, Lesson(0), Lesson(2)}
AltName       == "test_search"

\* the tool objects handed to register_tool: two CourseSearchTool-like
\* objects declaring different names, two CourseOutlineTool objects, and two
\* objects whose definition has an empty name or no name at all
ToolObjects   == {"search", "alt", "outline", "outline_b", "nameless", "unnamed"}
TrackingTools == {"search", "alt"}   \* the objects with a last_sources attribute

\* get_tool_definition().get("name") of each tool object
definition_name(t) ==
    IF t = "search" THEN SearchName
    ELSE IF t = "alt" THEN AltName
    ELSE IF t \in {"outline", "outline_b"} THEN OutlineName
    ELSE IF t = "nameless" THEN ""
    ELSE NoneStr

\* Search Result Sets the store may hand back: an error, or 0..n matches;
\* the i-th document is "chunk text i", course_title = NoneStr is a metadata
\* map without that key
Match(l) == [doc |-> ChunkText,
             meta |-> [course_title |-> CourseTitle, lesson_number |-> l]]

MatchAt(i, title, l) ==
    [Match(l) EXCEPT !.doc = ChunkText \o " " \o ToString(i),
                     !.meta.course_title = title]

\* SearchResults.empty(error_msg): an error comes with no match; the empty
\* string is an error message too
SearchResultsUpTo(titles, lessons, n) ==
    {[error |-> e, matches |-> <<>>] : e \in {SearchError, ""}} \cup
    {[error |-> NoneStr, matches |-> [i \in 1..Len(ms) |-> MatchAt(i, ms[i][1], ms[i][2])]] :
        ms \in SeqsUpTo(titles \X lessons, n)}

SearchResultsSet == SearchResultsUpTo({CourseTitle, NoneStr}, LessonNumbers, MaxMatches)

\* what the course catalog does when asked for a course record
CatalogModes == {"ok", "raises", "no_record", "no_lessons", "bad_json"}

\* the lessons_json of the catalog record of CourseTitle
CatalogLessons == <<[lesson_number |-> 1, lesson_link |-> "https://example.com/lesson1"],
                    [lesson_number |-> 2, lesson_link |-> "https://example.com/lesson2"]>>

\* faulty variant of lesson_present: lesson 0 is taken for a missing number
lesson_present_truthy(lesson_num) == lesson_num # NoLesson /\ lesson_num[1] # 0

\* _format_results, lines 108 and 114, and _get_lesson_link, line 132:
\* "lesson_num is not None"
lesson_present(lesson_num) == lesson_num # NoLesson

\* CourseSearchTool._get_lesson_link
RECURSIVE find_lesson_link(_, _, _)
find_lesson_link(lessons, n, i) ==
    IF i > Len(lessons) THEN NoneStr
    ELSE IF lessons[i].lesson_number = n THEN lessons[i].lesson_link
    ELSE find_lesson_link(lessons, n, i + 1)

\* faulty variant of get_lesson_link: a failure of the catalog is not caught
get_lesson_link_unguarded(catalog, course_title, lesson_number) ==
    IF ~lesson_present(lesson_number) THEN NoneStr
    ELSE IF catalog \in {"raises", "bad_json"} THEN "<exception>"
    ELSE IF catalog # "ok" \/ course_title # CourseTitle THEN NoneStr
    ELSE find_lesson_link(CatalogLessons, lesson_number[1], 1)

get_lesson_link(catalog, course_title, lesson_number) ==
    IF ~lesson_present(lesson_number) THEN NoneStr
    ELSE IF catalog # "ok" \/ course_title # CourseTitle THEN NoneStr
    ELSE find_lesson_link(CatalogLessons, lesson_number[1], 1)

\* faulty variant of sort_key: a missing lesson number sorts last
sort_key_missing_last(match) ==
    IF match.meta.lesson_number # NoLesson THEN match.meta.lesson_number[1] ELSE 1000

\* _format_results, line 99: the sort key
sort_key(match) ==
    IF match.meta.lesson_number # NoLesson THEN match.meta.lesson_number[1] ELSE -1

\* faulty variant of insert_sorted: a match is placed before the matches
\* of equal key
RECURSIVE insert_sorted_before_equal(_, _)
insert_sorted_before_equal(sorted, m) ==
    IF sorted = <<>> THEN <<m>>
    ELSE IF sort_key(sorted[Len(sorted)]) < sort_key(m) THEN Append(sorted, m)
    ELSE Append(insert_sorted_before_equal(SubSeq(sorted, 1, Len(sorted) - 1), m),
                sorted[Len(sorted)])

\* list.sort(key=...): a stable sort
RECURSIVE insert_sorted(_, _)
insert_sorted(sorted, m) ==
    IF sorted = <<>> THEN <<m>>
    ELSE IF sort_key(sorted[Len(sorted)]) <= sort_key(m) THEN Append(sorted, m)
    ELSE Append(insert_sorted(SubSeq(sorted, 1, Len(sorted) - 1), m), sorted[Len(sorted)])

RECURSIVE sort_matches(_)
sort_matches(ms) ==
    IF ms = <<>> THEN <<>>
    ELSE insert_sorted(sort_matches(SubSeq(ms, 1, Len(ms) - 1)), ms[Len(ms)])

\* _format_results, line 103: meta.get("course_title", "unknown")
course_title_of(match) ==
    IF match.meta.course_title = NoneStr THEN "unknown" ELSE match.meta.course_title

\* _format_results, lines 113-115
source_text(match) ==
    IF lesson_present(match.meta.lesson_number)
    THEN course_title_of(match) \o " - Lesson " \o ToString(match.meta.lesson_number[1])
    ELSE course_title_of(match)

\* _format_results, lines 107-110 and 123
format_block(match) == "[" \o source_text(match) \o "]\n" \o match.doc

RECURSIVE join_blocks(_)
join_blocks(ms) ==
    IF ms = <<>> THEN ""
    ELSE IF Len(ms) = 1 THEN format_block(ms[1])
    ELSE format_block(ms[1]) \o "\n\n" \o join_blocks(Tail(ms))

\* faulty variant of format_sources: equal citations are merged
format_sources_merged(results, catalog) ==
    LET combined == sort_matches(results.matches)
        all == [i \in 1..Len(combined) |->
                  [text |-> source_text(combined[i]),
                   link |-> get_lesson_link(catalog, course_title_of(combined[i]),
                                            combined[i].meta.lesson_number)]]
        keep == {i \in 1..Len(all) : \A j \in 1..(i - 1) : all[j] # all[i]}
        RECURSIVE pick(_)
        pick(i) == IF i > Len(all) THEN <<>>
                   ELSE IF i \in keep THEN <<all[i]>> \o pick(i + 1) ELSE pick(i + 1)
    IN  pick(1)

\* _format_results: the citations and the text of a non-empty result set
format_sources(results, catalog) ==
    LET combined == sort_matches(results.matches)
    IN  [i \in 1..Len(combined) |->
            [text |-> source_text(combined[i]),
             link |-> get_lesson_link(catalog, course_title_of(combined[i]),
                                      combined[i].meta.lesson_number)]]

format_results(results) == join_blocks(sort_matches(results.matches))

\* CourseSearchTool.execute, lines 79-84: the message of an empty result set
empty_message(course_name, lesson_number) ==
    "No relevant content found"
    \o (IF course_name # NoneStr /\ course_name # ""
        THEN " in course '" \o course_name \o "'" ELSE "")
    \o (IF lesson_number # NoLesson /\ lesson_number # Lesson(0)
        THEN " in lesson " \o ToString(lesson_number[1]) ELSE "")
    \o "."

\* _get_lesson_link, lines 132-139: the catalog is asked once for every match
\* that has a lesson number
link_lookups(results) ==
    Cardinality({i \in 1..Len(results.matches) :
                    lesson_present(results.matches[i].meta.lesson_number)})

\* faulty variant of search_execute: the error of the result set is ignored
search_execute_error_ignored(results, catalog, course_name, lesson_number) ==
    IF Len(results.matches) = 0
    THEN [kind |-> "empty", output |-> empty_message(course_name, lesson_number),
          stores |-> FALSE, produced |-> <<>>, lookups |-> 0]
    ELSE [kind |-> "matches", output |-> format_results(results),
          stores |-> TRUE, produced |-> format_sources(results, catalog),
          lookups |-> link_lookups(results)]

\* CourseSearchTool.execute: what the call returns and what it stores;
\* stores = FALSE leaves last_sources as it was
search_execute(results, catalog, course_name, lesson_number) ==
    IF results.error # NoneStr /\ results.error # ""
    THEN [kind |-> "error", output |-> results.error,
          stores |-> FALSE, produced |-> <<>>, lookups |-> 0]
    ELSE IF Len(results.matches) = 0
    THEN [kind |-> "empty", output |-> empty_message(course_name, lesson_number),
          stores |-> FALSE, produced |-> <<>>, lookups |-> 0]
    ELSE [kind |-> "matches", output |-> format_results(results),
          stores |-> TRUE, produced |-> format_sources(results, catalog),
          lookups |-> link_lookups(results)]

\* CourseOutlineTool.execute: the outline text; it has no citation state
RECURSIVE outline_lines(_)
outline_lines(lessons) ==
    IF lessons = <<>> THEN ""
    ELSE "- Lesson " \o ToString(lessons[1].lesson_number) \o ": "
         \o lessons[1].lesson_title \o "\n" \o outline_lines(Tail(lessons))

OutlineLessons == <<[lesson_number |-> 1, lesson_title |-> "Getting started"],
                    [lesson_number |-> 2, lesson_title |-> "Functions"]>>

\* store._resolve_course_name raised instead of returning
ResolveRaises == "<resolve raises>"

\* the text CourseOutlineTool.execute returns once the name is resolved
outline_text(resolved, catalog) ==
    IF catalog = "raises" THEN "Error retrieving course outline: catalog failure"
    ELSE IF catalog = "no_record" THEN "Course metadata not found for '" \o resolved \o "'"
    ELSE IF catalog = "bad_json" THEN "Error retrieving course outline: Expecting value: line 1 column 1 (char 0)"
    ELSE "**Course:** " \o resolved \o "\n**Course Link:** https://example.com/course\n\n"
         \o "**Course Outline:**\n"
         \o (IF catalog = "no_lessons" THEN "" ELSE outline_lines(OutlineLessons))

\* faulty variant of outline_execute: an unresolved name is looked up all the same
outline_execute_unresolved_lookup(resolved, catalog, course_name) ==
    IF resolved = ResolveRaises
    THEN [kind |-> "raised", output |-> "resolve failure", stores |-> FALSE,
          produced |-> <<>>, lookups |-> 0]
    ELSE [kind |-> "outline", output |-> outline_text(resolved, catalog),
          stores |-> FALSE, produced |-> <<>>, lookups |-> 1]

\* CourseOutlineTool.execute: line 197 is outside the try, so an exception
\* of _resolve_course_name leaves execute; lookups counts course_catalog.get
outline_execute(resolved, catalog, course_name) ==
    IF resolved = ResolveRaises
    THEN [kind |-> "raised", output |-> "resolve failure", stores |-> FALSE,
          produced |-> <<>>, lookups |-> 0]
    ELSE IF resolved = NoneStr \/ resolved = ""
    THEN [kind |-> "outline", output |-> "No course found matching '" \o course_name \o "'",
          stores |-> FALSE, produced |-> <<>>, lookups |-> 0]
    ELSE [kind |-> "outline", output |-> outline_text(resolved, catalog),
          stores |-> FALSE, produced |-> <<>>, lookups |-> 1]

(***************************************************************************)
(* The vector index adapter (VectorStore)                                  *)
(***************************************************************************)
MaxResultsArg == 3      \* largest small max_results a store is constructed with
MaxLimit == 3           \* largest explicit limit of a search
LargeMaxResults == 1000 \* the large max_results of test_max_results_large_value_works

\* no store under study
NoStore == [pc |-> "none", arg |-> 0, max_results |-> <<>>, error |-> NoneStr,
            limit |-> <<>>, course_title |-> NoneStr, lesson_number |-> NoLesson,
            n_results |-> <<>>, where |-> "none", result_error |-> NoneStr]

\* faulty variant of valid_max_results: zero is accepted
valid_max_results_zero(max_results) == max_results >= 0

\* VectorStore.__init__: the configured maximum must be positive
valid_max_results(max_results) == max_results > 0

\* faulty variant of search_limit: a limit of 0 falls back to the maximum
search_limit_or(limit, max_results) ==
    IF limit # <<>> /\ limit[1] # 0 THEN limit[1] ELSE max_results

\* VectorStore.search: limit if limit is not None else max_results
search_limit(limit, max_results) ==
    IF limit # <<>> THEN limit[1] ELSE max_results

\* VectorStore.search: the filter of the query; both filters combine with AND
build_filter(course_title, lesson_number) ==
    IF course_title # NoneStr /\ lesson_number # NoLesson THEN "course_and_lesson"
    ELSE IF course_title # NoneStr THEN "course"
    ELSE IF lesson_number # NoLesson THEN "lesson"
    ELSE "none"

(***************************************************************************)
(* search_tools.py: ToolManager                                            *)
(***************************************************************************)
\* ToolManager.tools is a dict: insertion-ordered, one entry per name
RegisteredNames(reg) == {reg[i].name : i \in 1..Len(reg)}
Lookup(reg, name) == (CHOOSE i \in 1..Len(reg) : reg[i].name = name)

\* faulty variant of dict_set: the first registration under a name is kept
dict_set_keep_first(reg, name, tool) ==
    IF name \in RegisteredNames(reg) THEN reg
    ELSE Append(reg, [name |-> name, tool |-> tool])

\* ToolManager.register_tool, line 249: self.tools[tool_name] = tool
dict_set(reg, name, tool) ==
    IF name \in RegisteredNames(reg)
    THEN [reg EXCEPT ![Lookup(reg, name)] = [name |-> name, tool |-> tool]]
    ELSE Append(reg, [name |-> name, tool |-> tool])

\* ToolManager.get_last_sources: the first registered tool holding citations
RECURSIVE first_sources(_, _, _)
first_sources(reg, srcs, i) ==
    IF i > Len(reg) THEN <<>>
    ELSE IF reg[i].tool \in TrackingTools /\ srcs[reg[i].tool] # <<>>
         THEN srcs[reg[i].tool]
    ELSE first_sources(reg, srcs, i + 1)

get_last_sources(reg, srcs) == first_sources(reg, srcs, 1)

\* the tool whose list object get_last_sources returns (line 267: return
\* tool.last_sources), "none" when it returns the new list of line 268
RECURSIVE first_holder(_, _, _)
first_holder(reg, srcs, i) ==
    IF i > Len(reg) THEN "none"
    ELSE IF reg[i].tool \in TrackingTools /\ srcs[reg[i].tool] # <<>>
         THEN reg[i].tool
    ELSE first_holder(reg, srcs, i + 1)

\* faulty variant of returned_after_reset: the list object of the tool is
\* cleared in place, so a caller holding it sees it emptied
returned_after_reset_cleared(reg, read, held) ==
    IF \E i \in 1..Len(reg) : reg[i].tool = held THEN <<>> ELSE read

\* ToolManager.reset_sources, line 274: tool.last_sources = [] binds the
\* attribute to a new list; the list object a caller received from
\* get_last_sources (read, the object of tool held) is not touched
returned_after_reset(reg, read, held) == read

\* faulty variant of reset_sources: nothing is emptied
reset_sources_noop(reg, srcs) == srcs

\* faulty variant of reset_sources: only the list get_last_sources returns
\* is emptied
reset_sources_first(reg, srcs) ==
    [t \in DOMAIN srcs |->
        IF \E i \in 1..Len(reg) :
              /\ reg[i].tool = t
              /\ \A j \in 1..(i - 1) :
                    reg[j].tool \notin DOMAIN srcs \/ srcs[reg[j].tool] = <<>>
        THEN <<>> ELSE srcs[t]]

\* ToolManager.reset_sources
reset_sources(reg, srcs) ==
    [t \in DOMAIN srcs |->
        IF \E i \in 1..Len(reg) : reg[i].tool = t THEN <<>> ELSE srcs[t]]

\* faulty variant of register_tool: the name is not checked
register_tool_unchecked(reg, t) ==
    [raised |-> FALSE, tools |-> dict_set(reg, definition_name(t), t)]

\* ToolManager.register_tool: the table after the call, or ValueError
register_tool(reg, t) ==
    LET tool_name == definition_name(t)
    IN  IF tool_name = NoneStr \/ tool_name = ""
        THEN [raised |-> TRUE, tools |-> reg]
        ELSE [raised |-> FALSE, tools |-> dict_set(reg, tool_name, t)]

\* ToolManager.get_tool_definitions: one definition per table entry, each
\* identified by the name it declares
get_tool_definitions(reg) ==
    [i \in 1..Len(reg) |-> [name |-> definition_name(reg[i].tool)]]

NoExec == [name |-> "", tool |-> "none", raised |-> FALSE, kind |-> "none",
           output |-> "", stores |-> FALSE, produced |-> <<>>, lookups |-> 0]
NoReg  == [tool |-> "none", raised |-> FALSE, previous |-> "none"]

ToolNames == {SearchName, AltName, OutlineName, UnknownName}
DeclaredNames == {definition_name(t) : t \in ToolObjects}

(***************************************************************************)
(* AIGenerator: decisions of the code, one operator each                   *)
(***************************************************************************)
\* faulty variant of wants_tools: the registry is not checked
wants_tools_unchecked(response, manager) ==
    response.stop_reason = "tool_use"

\* generate_response, line 103: the tool loop is entered only with a registry
wants_tools(response, manager) ==
    response.stop_reason = "tool_use" /\ manager

\* AIGenerator.SYSTEM_PROMPT, lines 17-51, character for character; the three
\* non-ASCII characters of line 41 (a dash read in the wrong encoding), which
\* a string of this language cannot hold, are written ---
SYSTEM_PROMPT ==
    " You are an AI assistant specialized in course materials and educational content with access to comprehensive search tools for course information.\n"
    \o "\n"
    \o "Available Tools:\n"
    \o "1. **search_course_content**: Search for specific content within course materials\n"
    \o "   - Use for detailed questions about course topics, concepts, or specific lessons\n"
    \o "   \n"
    \o "2. **get_course_outline**: Retrieve complete course structure with all lessons\n"
    \o "   - Use for questions about course structure, lesson lists, or what's covered in a course\n"
    \o "   - Always returns: course title, course link, and complete list of lessons with numbers and titles\n"
    \o "\n"
    \o "Tool Usage Guidelines:\n"
    \o "- Use tools **only** for questions about specific course content or course structure\n"
    \o "- **Multi-round capability**: You can make up to 2 sequential tool calls\n"
    \o "  * First round: Get initial information or context\n"
    \o "  * Second round (if needed): Make additional searches based on first results\n"
    \o "- After receiving tool results, evaluate if additional searches are needed\n"
    \o "- Synthesize tool results into accurate, fact-based responses\n"
    \o "- If tool yields no results, state this clearly without offering alternatives\n"
    \o "\n"
    \o "Response Protocol:\n"
    \o "- **General knowledge questions**: Answer using existing knowledge without searching\n"
    \o "- **Course-specific questions**: Use appropriate tool first, then answer\n"
    \o "- **Course outline queries**: Use get_course_outline tool to return course title, course link, and all lessons with numbers and titles\n"
    \o "- **No meta-commentary**:\n"
    \o " - Provide direct answers only --- no reasoning process, search explanations, or question-type analysis\n"
    \o " - Do not mention \"based on the search results\" or tool names\n"
    \o "\n"
    \o "\n"
    \o "All responses must be:\n"
    \o "1. **Brief, Concise and focused** - Get to the point quickly\n"
    \o "2. **Educational** - Maintain instructional value\n"
    \o "3. **Clear** - Use accessible language\n"
    \o "4. **Example-supported** - Include relevant examples when they aid understanding\n"
    \o "Provide only the direct answer to what was asked.\n"

\* faulty variant of system_content: an empty history is appended as well
system_content_any_text(history) ==
    IF history # NoneStr
    THEN SYSTEM_PROMPT \o "\n\nPrevious conversation:\n" \o history
    ELSE SYSTEM_PROMPT

\* generate_response, lines 81-85: None and "" are both falsy
system_content(history) ==
    IF history # NoneStr /\ history # ""
    THEN SYSTEM_PROMPT \o "\n\nPrevious conversation:\n" \o history
    ELSE SYSTEM_PROMPT

\* generate_response, lines 94-97: the parameters of the first call
first_params(tools_given, msgs) ==
    [tools       |-> IF tools_given THEN "schemas" ELSE "absent",
     tool_choice |-> IF tools_given THEN "auto" ELSE "absent",
     messages    |-> msgs]

\* faulty variant of next_params: the calls of the rounds carry no tools
next_params_without_tools(tools_given, msgs) ==
    [tools |-> "absent", tool_choice |-> "absent", messages |-> msgs]

\* _handle_tool_execution, lines 179-185: base_params.get("tools") is None
\* when the first call carried no tools; the key is present all the same
next_params(tools_given, msgs) ==
    [tools       |-> IF tools_given THEN "schemas" ELSE "none",
     tool_choice |-> "auto",
     messages    |-> msgs]

\* faulty variant of final_params: the final call keeps the tools of the rounds
final_params_with_tools(tools_given, msgs) ==
    [tools       |-> IF tools_given THEN "schemas" ELSE "none",
     tool_choice |-> "auto",
     messages    |-> msgs]

\* _force_final_text_response, lines 280-285: no tools, no tool_choice
final_params(tools_given, msgs) ==
    [tools |-> "absent", tool_choice |-> "absent", messages |-> msgs]

\* content_block.type can be read; reading it raises AttributeError otherwise
has_type(block) == block.type # "<no type attribute>"

\* faulty variant of is_tool_use: every content block is executed
is_tool_use_any(block) == TRUE

\* lines 137 and 252
is_tool_use(block) == block.type = "tool_use"

\* faulty variant of round_tool_result: a failure is not tagged
round_tool_result_untagged(block, outcome) ==
    [type |-> "tool_result", tool_use_id |-> block.id,
     content |-> IF outcome.raised THEN "Tool execution failed: " \o outcome.text
                 ELSE outcome.text,
     is_error |-> FALSE]

\* lines 144-166: the tool_result block of one tool call inside a round
round_tool_result(block, outcome) ==
    IF outcome.raised
    THEN [type |-> "tool_result", tool_use_id |-> block.id,
          content |-> "Tool execution failed: " \o outcome.text, is_error |-> TRUE]
    ELSE [type |-> "tool_result", tool_use_id |-> block.id,
          content |-> outcome.text, is_error |-> FALSE]

\* lines 257-273: the tool_result block of one tool call in forced finalization
final_tool_result(block, outcome) ==
    IF outcome.raised
    THEN [type |-> "tool_result", tool_use_id |-> block.id,
          content |-> "Error: " \o outcome.text, is_error |-> TRUE]
    ELSE [type |-> "tool_result", tool_use_id |-> block.id,
          content |-> outcome.text, is_error |-> FALSE]

\* faulty variant of round_aborted: the round goes on without any tool result
round_aborted_never(results) == FALSE

\* _handle_tool_execution, lines 168-173: "if not tool_results: break"
round_aborted(results) == results = <<>>

\* faulty variant of next_block: a tool call that raised is made again
next_block_retry(i, outcome) == IF outcome.raised THEN i ELSE i + 1

\* lines 136-166 and 251-273: the for loop goes on to the next content block
\* whether execute_tool returned or raised
next_block(i, outcome) == i + 1

\* faulty variant of after_round: the cap is tested one round too late
after_round_late_cap(stop_reason, r) ==
    IF stop_reason # "tool_use" THEN "break"
    ELSE IF r = MAX_TOOL_ROUNDS + 1 THEN "force"
    ELSE "next_round"

\* faulty variant of after_round: the stop reason is not looked at
after_round_no_break(stop_reason, r) ==
    IF r = MAX_TOOL_ROUNDS THEN "force" ELSE "next_round"

\* lines 201-217: what the loop does with the response of round r
after_round(stop_reason, r) ==
    IF stop_reason # "tool_use" THEN "break"
    ELSE IF r = MAX_TOOL_ROUNDS THEN "force"
    ELSE "next_round"

Terminated == pc \in {"done", "raised"}

(***************************************************************************)
(* AIGenerator.generate_response, step by step                             *)
(***************************************************************************)
GenStart ==
    /\ pc = "start"
    /\ tools \in BOOLEAN
    /\ tool_manager \in BOOLEAN
    /\ round_num = 0
    /\ current_response = NoResponse
    /\ final_response = NoResponse
    /\ messages = <<>>
    /\ tool_results = <<>>
    /\ idx = 0
    /\ result = NoResult
    /\ calls = <<>>
    /\ executed = <<>>
    /\ batches = 0
    /\ emitted = 0

\* generate_response called without a conversation history, with a client
\* whose responses hold well-formed content blocks
GenInit ==
    GenStart /\ conversation_history = NoneStr /\ malformed = FALSE /\ unknown_tools = FALSE

ToolInit ==
    /\ registry = <<>>
    /\ last_sources = [t \in TrackingTools |-> <<>>]
    /\ last_exec = NoExec
    /\ last_op = "none"
    /\ last_reg = NoReg
    /\ latest = [n \in DeclaredNames |-> "none"]
    /\ cleared = {}

\* the ToolManager handed to generate_response: the content search tool and
\* the outline tool are registered, no search has run yet
SystemTools ==
    /\ registry = <<[name |-> SearchName, tool |-> "search"],
                    [name |-> OutlineName, tool |-> "outline"]>>
    /\ last_sources = [t \in TrackingTools |-> <<>>]
    /\ last_exec = NoExec
    /\ last_op = "none"
    /\ last_reg = NoReg
    /\ latest = [n \in DeclaredNames |->
                    IF n = SearchName THEN "search"
                    ELSE IF n = OutlineName THEN "outline" ELSE "none"]
    /\ cleared = {}

\* no CourseSearchTool.execute call under study, no user query in flight
NoInput == [results |-> [error |-> NoneStr, matches |-> <<>>], catalog |-> "ok",
            course_name |-> NoneStr, lesson_number |-> NoLesson, resolved |-> NoneStr]
Queries == {1, 2}
QueryStart == [pc |-> "run", execs |-> 0, own |-> <<>>, read |-> <<>>, from |-> 0,
               hit |-> <<>>, last_hit |-> FALSE, held |-> "none"]

QueryIdle ==
    /\ search_in = NoInput
    /\ store = NoStore
    /\ queries = [q \in Queries |-> QueryStart]
    /\ owner = 0
    /\ overlapped = FALSE

\* no generate_response call is in progress
GenIdle ==
    /\ pc = "idle"
    /\ tools = FALSE
    /\ tool_manager = FALSE
    /\ round_num = 0
    /\ current_response = NoResponse
    /\ final_response = NoResponse
    /\ messages = <<>>
    /\ tool_results = <<>>
    /\ idx = 0
    /\ result = NoResult
    /\ calls = <<>>
    /\ executed = <<>>
    /\ batches = 0
    /\ emitted = 0
    /\ conversation_history = NoneStr
    /\ malformed = FALSE
    /\ unknown_tools = FALSE

Init == GenInit /\ SystemTools /\ QueryIdle

ToolSpecInit == GenIdle /\ ToolInit /\ QueryIdle

\* the arguments and the answers of the store and the catalog that matter
\* to one execute_tool call
ExecInput(results, catalog, course_name, lesson_number, resolved) ==
    [results |-> results, catalog |-> catalog, course_name |-> course_name,
     lesson_number |-> lesson_number, resolved |-> resolved]

\* every input of one CourseSearchTool.execute call: the filters only shape
\* the message of an empty result set, the catalog only the links of matches
AllSearchInputs ==
    {ExecInput(r, c, NoneStr, NoLesson, NoneStr) :
        r \in {x \in SearchResultsSet : Len(x.matches) > 0}, c \in CatalogModes} \cup
    {ExecInput(r, "ok", cn, ln, NoneStr) :
        r \in {x \in SearchResultsSet : Len(x.matches) = 0},
        cn \in {NoneStr, "", CourseName}, ln \in LessonNumbers}

\* the inputs of the registry runs: an error, no match with and without
\* filters, or one match, with and without a lesson number and a link
SearchInputs ==
    {ExecInput(r, c, NoneStr, NoLesson, NoneStr) :
        r \in {x \in SearchResultsUpTo({CourseTitle}, {NoLesson, Lesson(2)}, 1) :
                  Len(x.matches) > 0},
        c \in {"ok", "raises"}} \cup
    {ExecInput([error |-> SearchError, matches |-> <<>>], "ok", NoneStr, NoLesson, NoneStr),
     ExecInput([error |-> NoneStr, matches |-> <<>>], "ok", NoneStr, NoLesson, NoneStr),
     ExecInput([error |-> NoneStr, matches |-> <<>>], "ok", CourseName, Lesson(2), NoneStr)}

OutlineInputs ==
    {ExecInput([error |-> NoneStr, matches |-> <<>>], "ok", CourseName, NoLesson, rs) :
        rs \in {NoneStr, CourseTitle}}

\* the inputs a tool name is executed with
InputsOf(tool_name) ==
    IF tool_name \in {SearchName, AltName} THEN SearchInputs
    ELSE IF tool_name = OutlineName THEN OutlineInputs
    ELSE {NoInput}

\* faulty variant of execute_tool: the table is indexed without a check
execute_tool_unchecked(reg, tool_name, in) ==
    IF tool_name \notin RegisteredNames(reg)
    THEN [tool |-> "none", raised |-> TRUE, kind |-> "raised",
          output |-> "KeyError: '" \o tool_name \o "'", stores |-> FALSE, produced |-> <<>>,
          lookups |-> 0]
    ELSE LET t == reg[Lookup(reg, tool_name)].tool
             done == IF t \in TrackingTools
                     THEN search_execute(in.results, in.catalog, in.course_name,
                                         in.lesson_number)
                     ELSE outline_execute(in.resolved, in.catalog, in.course_name)
         IN  [tool |-> t, raised |-> done.kind = "raised", kind |-> done.kind,
              output |-> done.output, stores |-> done.stores, produced |-> done.produced,
              lookups |-> done.lookups]

\* ToolManager.execute_tool, lines 257-260
execute_tool(reg, tool_name, in) ==
    IF tool_name \notin RegisteredNames(reg)
    THEN [tool |-> "none", raised |-> FALSE, kind |-> "not_found",
          output |-> "Tool '" \o tool_name \o "' not found",
          stores |-> FALSE, produced |-> <<>>, lookups |-> 0]
    ELSE LET t == reg[Lookup(reg, tool_name)].tool
             done == IF t \in TrackingTools
                     THEN search_execute(in.results, in.catalog, in.course_name,
                                         in.lesson_number)
                     ELSE outline_execute(in.resolved, in.catalog, in.course_name)
         IN  [tool |-> t, raised |-> done.kind = "raised", kind |-> done.kind,
              output |-> done.output, stores |-> done.stores, produced |-> done.produced,
              lookups |-> done.lookups]

\* faulty variant of stored_after: new citations are added to the old ones
stored_after_appended(srcs, done) ==
    IF done.stores THEN [srcs EXCEPT ![done.tool] = @ \o done.produced] ELSE srcs

\* the citation state after an execute_tool call: _format_results, line 126
stored_after(srcs, done) ==
    IF done.stores THEN [srcs EXCEPT ![done.tool] = done.produced] ELSE srcs

\* the arguments of the tool calls the model asks for in a query, with the
\* answers of the store and the catalog: a content search that finds one
\* match or gets an error from the store, an outline request whose course
\* name is resolved or whose resolution raises
CallInputs(tool_name) ==
    IF tool_name = SearchName
    THEN {ExecInput([error |-> NoneStr, matches |-> <<MatchAt(1, CourseTitle, Lesson(2))>>],
                    "ok", NoneStr, NoLesson, NoneStr),
          ExecInput([error |-> SearchError, matches |-> <<>>], "ok", NoneStr, NoLesson,
                    NoneStr)}
    ELSE IF tool_name = OutlineName
    THEN {ExecInput([error |-> NoneStr, matches |-> <<>>], "ok", CourseName, NoLesson, rs) :
             rs \in {CourseTitle, ResolveRaises}}
    ELSE {NoInput}

\* what the loop sees of an execute_tool call: its return value, or the
\* message of the exception it raised
outcome_of(done) == [raised |-> done.raised, text |-> done.output]

\* the effect of ToolManager.execute_tool(tool_name, ...) on the tools
Executed(tool_name, done) ==
    /\ last_exec' = [name |-> tool_name, tool |-> done.tool, raised |-> done.raised,
                     kind |-> done.kind, output |-> done.output,
                     stores |-> done.stores, produced |-> done.produced,
                     lookups |-> done.lookups]
    /\ last_sources' = stored_after(last_sources, done)
    /\ last_op' = "execute"
    /\ last_reg' = NoReg
    /\ cleared' = {}
    /\ UNCHANGED <<registry, latest>>

\* what the client is called with: the system content is built once, lines
\* 81-91, and handed on as base_params["system"], lines 183 and 284
Logged(params, outcome) == [tools |-> params.tools, tool_choice |-> params.tool_choice,
                            messages |-> params.messages, raised |-> outcome,
                            system |-> system_content(conversation_history),
                            reply |-> <<>>, error |-> NoneStr]

\* a call that raised, with the message of its exception
Failed(params, e) == [Logged(params, TRUE) EXCEPT !.error = e]

\* a call that returned, with the content of the response it returned
Answered(params, r) == [Logged(params, FALSE) EXCEPT !.reply = r.content]

\* lines 80-100: build the parameters and make the first model call; an
\* exception of the client propagates to the caller
FirstCall ==
    /\ pc = "start"
    /\ messages' = <<UserQuery(Query)>>
    /\ \/ /\ \E e \in ApiErrors :
                calls' = Append(calls, Failed(first_params(tools, messages'), e))
          /\ pc' = "raised"
          /\ UNCHANGED <<current_response, emitted>>
       \/ \E r \in Responses(1, emitted) :
             /\ calls' = Append(calls, Answered(first_params(tools, messages'), r))
             /\ current_response' = r
             /\ emitted' = emitted + Len(r.content)
             /\ pc' = "first_got"
    /\ UNCHANGED <<tools, tool_manager, conversation_history, malformed, unknown_tools, round_num, tool_results, idx, final_response,
                   result, executed, batches, tool_vars, query_vars>>

\* lines 102-107 and 121-132: enter the tool loop, or return content[0].text
\* (IndexError on an empty content, AttributeError on a block without text)
Dispatch ==
    /\ pc = "first_got"
    /\ IF wants_tools(current_response, tool_manager)
       THEN /\ round_num' = 1
            /\ messages' = Append(messages, AssistantTurn(current_response.content))
            /\ tool_results' = <<>>
            /\ idx' = 1
            /\ batches' = batches + 1
            /\ pc' = "round_tools"
            /\ UNCHANGED result
       ELSE /\ IF Len(current_response.content) = 0
                  \/ current_response.content[1].text = NoText
               THEN pc' = "raised" /\ UNCHANGED result
               ELSE pc' = "done" /\ result' = current_response.content[1].text
            /\ UNCHANGED <<round_num, messages, tool_results, idx, batches>>
    /\ UNCHANGED <<tools, tool_manager, conversation_history, malformed, unknown_tools, current_response, final_response, calls,
                   executed, emitted, tool_vars, query_vars>>

\* lines 136-166: one content block of the response of this round
RoundBlock ==
    /\ pc = "round_tools"
    /\ idx <= Len(current_response.content)
    /\ has_type(current_response.content[idx])
    /\ LET block == current_response.content[idx] IN
       IF is_tool_use(block)
       THEN \E in \in CallInputs(block.name) :
              LET done == execute_tool(registry, block.name, in)
                  outcome == outcome_of(done)
              IN /\ executed' = Append(executed, [id |-> block.id, raised |-> outcome.raised,
                                                  batch |-> batches])
                 /\ tool_results' = Append(tool_results, round_tool_result(block, outcome))
                 /\ idx' = next_block(idx, outcome)
                 /\ Executed(block.name, done)
       ELSE /\ UNCHANGED <<executed, tool_results, tool_vars>>
            /\ idx' = idx + 1
    /\ UNCHANGED <<pc, tools, tool_manager, conversation_history, malformed, unknown_tools, round_num, current_response, final_response,
                   messages, result, calls, batches, emitted, query_vars>>

\* lines 222-227: an exception of the loop that is no tool failure and no
\* failed model call, here reading the type of a malformed block, is caught
\* by the outer handler and answered with the fixed apology
RoundUnexpected ==
    /\ pc = "round_tools"
    /\ idx <= Len(current_response.content)
    /\ ~has_type(current_response.content[idx])
    /\ result' = create_error_response("Unexpected error: " \o NoTypeError)
    /\ pc' = "done"
    /\ UNCHANGED <<tools, tool_manager, conversation_history, malformed, unknown_tools, round_num, current_response,
                   final_response, messages, tool_results, idx, calls, executed, batches,
                   emitted, tool_vars, query_vars>>

\* lines 168-185: the batch is complete
RoundBatchEnd ==
    /\ pc = "round_tools"
    /\ idx > Len(current_response.content)
    /\ IF round_aborted(tool_results)
       THEN /\ result' = extract_text_response(current_response)
            /\ pc' = "done"
            /\ UNCHANGED messages
       ELSE /\ messages' = Append(messages, ToolResultTurn(tool_results))
            /\ pc' = "round_call"
            /\ UNCHANGED result
    /\ UNCHANGED <<tools, tool_manager, conversation_history, malformed, unknown_tools, round_num, current_response, final_response,
                   tool_results, idx, calls, executed, batches, emitted, tool_vars, query_vars>>

\* lines 187-199: the model call of the round; a failure ends the query
RoundCall ==
    /\ pc = "round_call"
    /\ \/ /\ \E e \in ApiErrors :
                /\ calls' = Append(calls, Failed(next_params(tools, messages), e))
                /\ result' = create_error_response(
                                 "API error in round " \o ToString(round_num) \o ": " \o e)
          /\ pc' = "done"
          /\ UNCHANGED <<current_response, emitted>>
       \/ \E r \in Responses(Len(calls) + 1, emitted) :
             /\ calls' = Append(calls, Answered(next_params(tools, messages), r))
             /\ current_response' = r
             /\ emitted' = emitted + Len(r.content)
             /\ pc' = "round_got"
             /\ UNCHANGED result
    /\ UNCHANGED <<tools, tool_manager, conversation_history, malformed, unknown_tools, round_num, final_response, messages,
                   tool_results, idx, executed, batches, tool_vars, query_vars>>

\* lines 201-220 and 247: break, go to the next round, or force the final answer
AfterRound ==
    /\ pc = "round_got"
    /\ LET branch == after_round(current_response.stop_reason, round_num) IN
       IF branch = "break"
       THEN /\ result' = extract_text_response(current_response)
            /\ pc' = "done"
            /\ UNCHANGED <<round_num, messages, tool_results, idx, batches>>
       ELSE /\ messages' = Append(messages, AssistantTurn(current_response.content))
            /\ tool_results' = <<>>
            /\ idx' = 1
            /\ batches' = batches + 1
            /\ round_num' = IF branch = "force" THEN round_num ELSE round_num + 1
            /\ pc' = IF branch = "force" THEN "force_tools" ELSE "round_tools"
            /\ UNCHANGED result
    /\ UNCHANGED <<tools, tool_manager, conversation_history, malformed, unknown_tools, current_response, final_response, calls,
                   executed, emitted, tool_vars, query_vars>>

\* lines 251-273: one content block of the response that hit the round cap
ForceBlock ==
    /\ pc = "force_tools"
    /\ idx <= Len(current_response.content)
    /\ has_type(current_response.content[idx])
    /\ LET block == current_response.content[idx] IN
       IF is_tool_use(block)
       THEN \E in \in CallInputs(block.name) :
              LET done == execute_tool(registry, block.name, in)
                  outcome == outcome_of(done)
              IN /\ executed' = Append(executed, [id |-> block.id, raised |-> outcome.raised,
                                                  batch |-> batches])
                 /\ tool_results' = Append(tool_results, final_tool_result(block, outcome))
                 /\ idx' = next_block(idx, outcome)
                 /\ Executed(block.name, done)
       ELSE /\ UNCHANGED <<executed, tool_results, tool_vars>>
            /\ idx' = idx + 1
    /\ UNCHANGED <<pc, tools, tool_manager, conversation_history, malformed, unknown_tools, round_num, current_response, final_response,
                   messages, result, calls, batches, emitted, query_vars>>

\* lines 292-294: the same exception in forced finalization
ForceUnexpected ==
    /\ pc = "force_tools"
    /\ idx <= Len(current_response.content)
    /\ ~has_type(current_response.content[idx])
    /\ result' = create_error_response("Failed to generate final response: " \o NoTypeError)
    /\ pc' = "done"
    /\ UNCHANGED <<tools, tool_manager, conversation_history, malformed, unknown_tools, round_num, current_response,
                   final_response, messages, tool_results, idx, calls, executed, batches,
                   emitted, tool_vars, query_vars>>

\* lines 275-277: the results are appended when there are any
ForceBatchEnd ==
    /\ pc = "force_tools"
    /\ idx > Len(current_response.content)
    /\ messages' = IF tool_results # <<>>
                   THEN Append(messages, ToolResultTurn(tool_results))
                   ELSE messages
    /\ pc' = "final_call"
    /\ UNCHANGED <<tools, tool_manager, conversation_history, malformed, unknown_tools, round_num, current_response, final_response,
                   tool_results, idx, result, calls, executed, batches, emitted, tool_vars, query_vars>>

\* lines 279-294: the final call without tools; its text is the answer
FinalCall ==
    /\ pc = "final_call"
    /\ \/ /\ \E e \in ApiErrors :
                /\ calls' = Append(calls, Failed(final_params(tools, messages), e))
                /\ result' = create_error_response(
                                 "Failed to generate final response: " \o e)
          /\ UNCHANGED <<final_response, emitted>>
       \/ \E r \in Responses(Len(calls) + 1, emitted) :
             /\ calls' = Append(calls, Answered(final_params(tools, messages), r))
             /\ final_response' = r
             /\ emitted' = emitted + Len(r.content)
             /\ result' = extract_text_response(r)
    /\ pc' = "done"
    /\ UNCHANGED <<tools, tool_manager, conversation_history, malformed, unknown_tools, round_num, current_response, messages,
                   tool_results, idx, executed, batches, tool_vars, query_vars>>

Next ==
    \/ FirstCall
    \/ Dispatch
    \/ RoundBlock
    \/ RoundBatchEnd
    \/ RoundCall
    \/ AfterRound
    \/ ForceBlock
    \/ ForceBatchEnd
    \/ FinalCall

Spec == Init /\ [][Next]_vars

RobustInit ==
    /\ GenStart
    /\ conversation_history = NoneStr
    /\ malformed = TRUE
    /\ unknown_tools = FALSE
    /\ SystemTools
    /\ QueryIdle

RobustNext ==
    \/ Next
    \/ RoundUnexpected
    \/ ForceUnexpected

\* generate_response with a client whose responses may hold malformed blocks
RobustSpec == RobustInit /\ [][RobustNext]_vars

\* the history texts a caller passes: None, the empty text of a new session,
\* the formatted exchanges of an earlier turn
Histories == {NoneStr, "", "User: Previous question\nAssistant: Previous answer"}

HistoryInit ==
    /\ GenStart
    /\ conversation_history \in Histories
    /\ malformed = FALSE
    /\ unknown_tools = FALSE
    /\ SystemTools
    /\ QueryIdle

\* generate_response with and without a conversation history
HistorySpec == HistoryInit /\ [][Next]_vars

\* every model call and every tool call returns or raises
FairSpec == Spec /\ WF_vars(Next)

(***************************************************************************)
(* ToolManager driven by its caller                                        *)
(***************************************************************************)
\* ToolManager.register_tool
RegisterTool ==
    /\ \E t \in ToolObjects :
         LET done == register_tool(registry, t) IN
         /\ registry' = done.tools
         /\ last_reg' = [tool |-> t, raised |-> done.raised,
                         previous |-> IF definition_name(t) \in RegisteredNames(registry)
                                      THEN registry[Lookup(registry, definition_name(t))].tool
                                      ELSE "none"]
         /\ latest' = IF done.raised THEN latest
                      ELSE [latest EXCEPT ![definition_name(t)] = t]
    /\ last_op' = "register"
    /\ last_exec' = NoExec
    /\ cleared' = {}
    /\ UNCHANGED <<last_sources, gen_vars, query_vars>>

\* ToolManager.execute_tool, dispatching to the execute of the tool
ExecuteTool ==
    /\ \E tool_name \in ToolNames :
       \E in \in InputsOf(tool_name) :
         LET done == execute_tool(registry, tool_name, in)
         IN Executed(tool_name, done)
    /\ UNCHANGED <<gen_vars, query_vars>>

\* ToolManager.reset_sources
ResetSources ==
    /\ last_sources' = reset_sources(registry, last_sources)
    /\ last_op' = "reset"
    /\ last_exec' = NoExec
    /\ last_reg' = NoReg
    /\ cleared' = {t \in TrackingTools :
                     (\E i \in 1..Len(registry) : registry[i].tool = t)
                     /\ last_sources[t] # <<>>}
    /\ UNCHANGED <<registry, latest, gen_vars, query_vars>>

(***************************************************************************)
(* One CourseSearchTool.execute call on every input                        *)
(***************************************************************************)
\* citations an earlier search left in the tool
StaleSources == <<[text |-> "Intro to Programming - Lesson 5", link |-> NoneStr]>>

SearchToolInit ==
    /\ GenIdle
    /\ registry = <<[name |-> SearchName, tool |-> "search"]>>
    /\ last_sources \in {[t \in TrackingTools |-> <<>>],
                         [t \in TrackingTools |-> IF t = "search" THEN StaleSources ELSE <<>>]}
    /\ last_exec = NoExec
    /\ last_op = "none"
    /\ last_reg = NoReg
    /\ latest = [n \in DeclaredNames |-> IF n = SearchName THEN "search" ELSE "none"]
    /\ cleared = {}
    /\ search_in \in AllSearchInputs
    /\ store = NoStore
    /\ queries = [q \in Queries |-> QueryStart]
    /\ owner = 0
    /\ overlapped = FALSE

\* CourseSearchTool.execute with the arguments and the answers of search_in
SearchExecute ==
    /\ last_op = "none"
    /\ LET done == search_execute(search_in.results, search_in.catalog,
                                  search_in.course_name, search_in.lesson_number)
       IN /\ last_exec' = [name |-> SearchName, tool |-> "search", raised |-> FALSE,
                           kind |-> done.kind, output |-> done.output,
                           stores |-> done.stores, produced |-> done.produced,
                           lookups |-> done.lookups]
          /\ last_sources' = IF done.stores
                             THEN [last_sources EXCEPT !["search"] = done.produced]
                             ELSE last_sources
    /\ last_op' = "execute"
    /\ UNCHANGED <<registry, last_reg, latest, cleared, gen_vars, query_vars>>

SearchToolNext == SearchExecute

SearchToolSpec == SearchToolInit /\ [][SearchToolNext]_vars

(***************************************************************************)
(* One CourseOutlineTool.execute call on every input                       *)
(***************************************************************************)
\* every input of one CourseOutlineTool.execute call: the name asked for,
\* what _resolve_course_name answers and what the catalog answers
AllOutlineInputs ==
    {ExecInput([error |-> NoneStr, matches |-> <<>>], c, cn, NoLesson, rs) :
        c \in CatalogModes, cn \in {CourseName, "", "MCP"},
        rs \in {NoneStr, "", CourseTitle, ResolveRaises}}

OutlineToolInit ==
    /\ GenIdle
    /\ registry = <<[name |-> SearchName, tool |-> "search"],
                    [name |-> OutlineName, tool |-> "outline"]>>
    /\ last_sources \in {[t \in TrackingTools |-> <<>>],
                         [t \in TrackingTools |-> IF t = "search" THEN StaleSources ELSE <<>>]}
    /\ last_exec = NoExec
    /\ last_op = "none"
    /\ last_reg = NoReg
    /\ latest = [n \in DeclaredNames |-> IF n = SearchName THEN "search"
                                         ELSE IF n = OutlineName THEN "outline" ELSE "none"]
    /\ cleared = {}
    /\ search_in \in AllOutlineInputs
    /\ store = NoStore
    /\ queries = [q \in Queries |-> QueryStart]
    /\ owner = 0
    /\ overlapped = FALSE

\* CourseOutlineTool.execute with the name and the answers of search_in
OutlineExecute ==
    /\ last_op = "none"
    /\ LET done == outline_execute(search_in.resolved, search_in.catalog,
                                   search_in.course_name)
       IN last_exec' = [name |-> OutlineName, tool |-> "outline",
                        raised |-> done.kind = "raised",
                        kind |-> done.kind, output |-> done.output,
                        stores |-> done.stores, produced |-> done.produced,
                        lookups |-> done.lookups]
    /\ last_op' = "execute"
    /\ UNCHANGED <<registry, last_sources, last_reg, latest, cleared, gen_vars, query_vars>>

OutlineToolNext == OutlineExecute

OutlineToolSpec == OutlineToolInit /\ [][OutlineToolNext]_vars

(***************************************************************************)
(* The vector index adapter: construction and one search                   *)
(***************************************************************************)
MaxResultsArgs == (-1 .. MaxResultsArg) \cup {LargeMaxResults}
Limits == {<<>>} \cup {<<n>> : n \in 0 .. MaxLimit}

StoreInit ==
    /\ GenIdle
    /\ ToolInit
    /\ search_in = NoInput
    /\ queries = [q \in Queries |-> QueryStart]
    /\ owner = 0
    /\ overlapped = FALSE
    /\ \E n \in MaxResultsArgs : store = [NoStore EXCEPT !.pc = "new", !.arg = n]

\* VectorStore(max_results = arg): ValueError for a value that is not positive
StoreConstruct ==
    /\ store.pc = "new"
    /\ store' = IF valid_max_results(store.arg)
                THEN [store EXCEPT !.pc = "built", !.max_results = <<store.arg>>]
                ELSE [store EXCEPT !.pc = "failed",
                                   !.error = "max_results must be positive"]
    /\ UNCHANGED <<gen_vars, tool_vars, search_in, queries, owner, overlapped>>

\* store.search(query, course title, lesson_number, limit): the query handed to
\* the collection; a failure of the collection comes back in the error field
StoreSearch ==
    /\ store.pc = "built"
    /\ \E limit \in Limits, ct \in {NoneStr, CourseTitle}, ln \in {NoLesson, Lesson(2)},
          failure \in {NoneStr, SearchError} :
          store' = [store EXCEPT !.pc = "searched", !.limit = limit,
                                 !.course_title = ct, !.lesson_number = ln,
                                 !.n_results = <<search_limit(limit, store.max_results[1])>>,
                                 !.where = build_filter(ct, ln),
                                 !.result_error = failure]
    /\ UNCHANGED <<gen_vars, tool_vars, search_in, queries, owner, overlapped>>

StoreNext == StoreConstruct \/ StoreSearch

StoreSpec == StoreInit /\ [][StoreNext]_vars

(***************************************************************************)
(* Two user queries served in parallel by one registry and one search tool *)
(***************************************************************************)
\* the registry of the running system: the search tool and the outline tool
RaceInit ==
    /\ GenIdle
    /\ registry = <<[name |-> SearchName, tool |-> "search"],
                    [name |-> OutlineName, tool |-> "outline"]>>
    /\ last_sources = [t \in TrackingTools |-> <<>>]
    /\ last_exec = NoExec
    /\ last_op = "none"
    /\ last_reg = NoReg
    /\ latest = [n \in DeclaredNames |->
                    IF n = SearchName THEN "search"
                    ELSE IF n = OutlineName THEN "outline" ELSE "none"]
    /\ cleared = {}
    /\ QueryIdle

Other(q) == CHOOSE o \in Queries : o # q

\* a query is between its first and its last step
InFlight(q) ==
    \/ queries[q].pc = "reset"
    \/ queries[q].pc = "run" /\ queries[q].execs > 0

\* the call is a content search whose result set has no error and at least
\* one match
IsHit(tool_name, in) ==
    /\ tool_name = SearchName
    /\ in.results.error \in {NoneStr, ""}
    /\ Len(in.results.matches) >= 1

\* one execute_tool call made by the response generation of query q; hit
\* logs the citations of its latest search that found a match
QueryExecute(q) ==
    /\ queries[q].pc = "run"
    /\ queries[q].execs < MaxExecs
    /\ \E tool_name \in {SearchName, OutlineName, "nonexistent_tool"} :
       \E in \in InputsOf(tool_name) :
         LET done == execute_tool(registry, tool_name, in)
         IN /\ last_sources' = stored_after(last_sources, done)
            /\ queries' = [p \in Queries |->
                  LET rebound == [queries[p] EXCEPT
                                     !.held = IF done.stores /\ @ = done.tool
                                              THEN "none" ELSE @]
                  IN  IF p # q THEN rebound
                      ELSE [rebound EXCEPT
                               !.execs = @ + 1,
                               !.own = IF done.stores THEN done.produced ELSE @,
                               !.last_hit = IsHit(tool_name, in),
                               !.hit = IF IsHit(tool_name, in)
                                       THEN done.produced ELSE @]]
            /\ owner' = IF done.stores THEN q ELSE owner
    /\ overlapped' = (overlapped \/ InFlight(Other(q)))
    /\ UNCHANGED <<registry, last_exec, last_op, last_reg, latest, cleared, gen_vars, search_in, store>>

\* the generation of query q has returned: its caller reads the sources
QueryRead(q) ==
    /\ queries[q].pc = "run"
    /\ LET sources == get_last_sources(registry, last_sources)
       IN  queries' = [queries EXCEPT ![q].pc = "reset",
                                      ![q].read = sources,
                                      ![q].held = first_holder(registry, last_sources, 1),
                                      ![q].from = IF sources = <<>> THEN 0 ELSE owner]
    /\ overlapped' = (overlapped \/ InFlight(Other(q)))
    /\ UNCHANGED <<tool_vars, gen_vars, search_in, owner, store>>

\* the caller of query q resets the sources and returns answer and sources
QueryReset(q) ==
    /\ queries[q].pc = "reset"
    /\ last_sources' = reset_sources(registry, last_sources)
    /\ owner' = 0
    /\ queries' = [p \in Queries |->
          [queries[p] EXCEPT
              !.pc = IF p = q THEN "done" ELSE @,
              !.read = returned_after_reset(registry, @, queries[p].held),
              !.held = IF \E i \in 1..Len(registry) : registry[i].tool = @
                       THEN "none" ELSE @]]
    /\ overlapped' = (overlapped \/ InFlight(Other(q)))
    /\ UNCHANGED <<registry, last_exec, last_op, last_reg, latest, cleared, gen_vars, search_in, store>>

RaceNext ==
    \E q \in Queries :
        \/ QueryExecute(q)
        \/ QueryRead(q)
        \/ QueryReset(q)

RaceSpec == RaceInit /\ [][RaceNext]_vars

(***************************************************************************)
(* User queries one at a time on the shared tools                          *)
(***************************************************************************)
\* every query before q has ended: answered, or failed in generate_response
Serial(q) == \A o \in Queries : o < q => queries[o].pc \in {"done", "failed"}

\* generate_response of query q raises: the first model call fails (line 100)
\* or its response has no text (line 107), both before any tool execution;
\* the exception leaves the caller, which neither reads nor resets the sources
QueryFail(q) ==
    /\ queries[q].pc = "run"
    /\ queries[q].execs = 0
    /\ queries' = [queries EXCEPT ![q].pc = "failed"]
    /\ UNCHANGED <<tool_vars, gen_vars, search_in, owner, overlapped, store>>

SerialNext ==
    \E q \in Queries :
        /\ Serial(q)
        /\ \/ QueryExecute(q)
           \/ QueryFail(q)
           \/ QueryRead(q)
           \/ QueryReset(q)

SerialSpec == RaceInit /\ [][SerialNext]_vars

ToolNext ==
    \/ RegisterTool
    \/ ExecuteTool
    \/ ResetSources

ToolSpec == ToolSpecInit /\ [][ToolNext]_vars

(***************************************************************************)
(* Tool names that are not registered: execute_tool called by a caller of  *)
(* the manager, and by generate_response for a model that asks for them    *)
(***************************************************************************)
UnknownToolInit ==
    \/ ToolSpecInit
    \/ /\ GenStart
       /\ conversation_history = NoneStr
       /\ malformed = FALSE
       /\ unknown_tools = TRUE
       /\ SystemTools
       /\ QueryIdle

\* the manager is driven by its caller while no generate_response runs
UnknownToolNext ==
    \/ pc = "idle" /\ ToolNext
    \/ Next

UnknownToolSpec == UnknownToolInit /\ [][UnknownToolNext]_vars

(***************************************************************************)
(* Properties of generate_response                                         *)
(***************************************************************************)
\* the call identifiers of the tool-use blocks of a content, in order
IdsOf(content) ==
    LET tu == SelectSeq(content, LAMBDA b : b.type = "tool_use")
    IN  [i \in 1..Len(tu) |-> tu[i].id]

ExecIds == [i \in 1..Len(executed) |-> executed[i].id]

Count(seq, x) == Cardinality({i \in DOMAIN seq : seq[i] = x})

\* number of responses of which at least one tool call was executed
ToolRounds == Cardinality({executed[i].batch : i \in 1..Len(executed)})

\* the first non-empty text of a content, or the generic apology
HasText(content) == \E i \in DOMAIN content : content[i].text \notin {NoText, ""}
FirstNonEmptyText(content) ==
    IF HasText(content)
    THEN content[CHOOSE i \in DOMAIN content :
                    /\ content[i].text \notin {NoText, ""}
                    /\ \A j \in 1..(i - 1) : content[j].text \in {NoText, ""}].text
    ELSE NoTextApology

ErrorApology ==
    "I apologize, but I encountered an error while processing your request. Please try rephrasing your question or ask something else."

SomeCallRaised == \E k \in DOMAIN calls : calls[k].raised

\* C1: generate_response terminates whatever the model and the tools answer
\* (every step returns or raises), and the number of tool-execution rounds
\* of one query never exceeds MAX_TOOL_ROUNDS + 1 = 3.
C1_TerminatesWithinRounds ==
    /\ <>Terminated
    /\ [](ToolRounds <= MAX_TOOL_ROUNDS + 1 /\ batches <= MAX_TOOL_ROUNDS + 1)

C1_Witness == Terminated /\ ToolRounds = MAX_TOOL_ROUNDS + 1

\* C2 as stated: one generate_response call makes at most
\* MAX_TOOL_ROUNDS + 1 = 3 model calls.
C2_AtMostThreeCalls == Len(calls) <= MAX_TOOL_ROUNDS + 1

\* C2 amended: one generate_response call makes at most MAX_TOOL_ROUNDS + 2 = 4
\* model calls: the first call, one call per round and the forced final call.
C2_AtMostFourCalls == Len(calls) <= MAX_TOOL_ROUNDS + 2

C2_Witness == pc = "done" /\ Len(calls) = MAX_TOOL_ROUNDS + 2

\* the response received at the end of round MAX_TOOL_ROUNDS still asks for tools
ForcedCase ==
    /\ Len(calls) >= MAX_TOOL_ROUNDS + 1
    /\ ~calls[MAX_TOOL_ROUNDS + 1].raised
    /\ current_response.stop_reason = "tool_use"
    /\ pc # "round_got"

\* every response of the query, the final one included, is one tool-use block
OneToolCallEveryTime ==
    /\ \A p \in DOMAIN messages :
          messages[p].role = "assistant" =>
             Len(messages[p].content) = 1 /\ Len(IdsOf(messages[p].content)) = 1
    /\ final_response.stop_reason = "tool_use"
    /\ Len(final_response.content) = 1 /\ Len(IdsOf(final_response.content)) = 1

\* C3: forced finalization. When the response at the end of round
\* MAX_TOOL_ROUNDS still has stop reason tool_use, its pending tool calls are
\* executed exactly once, then exactly one more model call is made, without
\* tools and without tool_choice; the answer is extracted from the response
\* of that call and no tool is executed afterwards. A model that answers every
\* call with one tool call gets exactly 3 tool executions, and the last call
\* is the only one made without tool access.
C3_ForcedFinalization ==
    ForcedCase =>
       /\ pc \in {"force_tools", "final_call", "done"}
       /\ pc \in {"final_call", "done"} =>
             /\ \A i \in DOMAIN IdsOf(current_response.content) :
                   Count(ExecIds, IdsOf(current_response.content)[i]) = 1
             /\ Len(executed) = Len(IdsOf(messages[2].content))
                                + Len(IdsOf(messages[4].content))
                                + Len(IdsOf(messages[6].content))
       /\ pc \in {"force_tools", "final_call"} => Len(calls) = MAX_TOOL_ROUNDS + 1
       /\ pc = "done" =>
             /\ Len(calls) = MAX_TOOL_ROUNDS + 2
             /\ calls[MAX_TOOL_ROUNDS + 2].tools = "absent"
             /\ calls[MAX_TOOL_ROUNDS + 2].tool_choice = "absent"
             /\ ~calls[MAX_TOOL_ROUNDS + 2].raised =>
                   /\ result = FirstNonEmptyText(final_response.content)
                   /\ \A i \in DOMAIN IdsOf(final_response.content) :
                         Count(ExecIds, IdsOf(final_response.content)[i]) = 0
             /\ (tools /\ OneToolCallEveryTime) =>
                   /\ Len(executed) = 3
                   /\ {k \in DOMAIN calls : calls[k].tools \in {"absent", "none"}}
                         = {MAX_TOOL_ROUNDS + 2}

C3_Witness ==
    /\ ForcedCase /\ pc = "done" /\ tools /\ OneToolCallEveryTime
    /\ Len(executed) = 3 /\ Len(calls) = 4

\* Early exit (C4). Once a response has arrived whose stop reason is not
\* tool_use, no further tool is executed and no further model call is made,
\* and the answer is taken from that response; a first response of that kind
\* means zero tool executions and one model call, one after round 1 means one
\* round of tools and two model calls.
C4_Inv ==
    current_response.stop_reason = "end_turn" =>
       /\ pc \in {"first_got", "round_got", "done", "raised"}
       /\ Len(calls) = 1 => executed = <<>>
       /\ Len(calls) = 2 =>
             /\ ToolRounds = 1
             /\ Len(executed) = Len(IdsOf(messages[2].content))
       /\ pc = "done" =>
             result = IF Len(calls) = 1 THEN current_response.content[1].text
                      ELSE FirstNonEmptyText(current_response.content)

C4_Step ==
    current_response.stop_reason = "end_turn" =>
       /\ executed' = executed
       /\ calls' = calls
       /\ current_response' = current_response

\* C4: early exit, as an invariant of the states that follow a response whose
\* stop reason is not tool_use and a condition on every step taken from them.
C4_EarlyExit == []C4_Inv /\ [][C4_Step]_vars

C4_Witness ==
    /\ pc = "done" /\ current_response.stop_reason = "end_turn"
    /\ Len(calls) = 2 /\ Len(executed) = 2
    /\ Len(IdsOf(current_response.content)) > 0

\* whether the tool call with this identifier raised
RaisedOf(id) == \E i \in DOMAIN executed : executed[i].id = id /\ executed[i].raised

\* the batch of tool results the k-th model call carries answers, one result
\* per tool call and in order, the assistant turn before it
WholeBatch(msgs) ==
    LET n == Len(msgs) IN
    IF msgs[n].kind = "tool_results"
    THEN LET ids == IdsOf(msgs[n - 1].content) IN
         /\ msgs[n - 1].role = "assistant"
         /\ Len(msgs[n].content) = Len(ids)
         /\ \A j \in DOMAIN ids :
               /\ msgs[n].content[j].tool_use_id = ids[j]
               /\ Count(ExecIds, ids[j]) = 1
               /\ msgs[n].content[j].is_error = RaisedOf(ids[j])
    ELSE /\ msgs[n].role = "assistant"
         /\ IdsOf(msgs[n].content) = <<>>

\* C5: fault isolation. A tool call that raises does not stop the other tool
\* calls of the same response: the batch handed to the model holds one result
\* per tool call of the response, the result of the failing call has
\* is_error = TRUE, and the next model call is still made with the whole batch.
C5_FaultIsolation ==
    /\ \A k \in DOMAIN calls : k >= 2 => WholeBatch(calls[k].messages)
    /\ \A i \in DOMAIN executed :
          executed[i].raised =>
             \/ pc \in {"round_tools", "force_tools"} /\ batches = executed[i].batch
             \/ pc \in {"round_call", "final_call"} /\ Len(calls) = executed[i].batch
             \/ Len(calls) >= executed[i].batch + 1

C5_Witness ==
    /\ pc = "done"
    /\ \E k \in DOMAIN calls :
          /\ k >= 2
          /\ LET batch == calls[k].messages[Len(calls[k].messages)] IN
             /\ batch.kind = "tool_results"
             /\ Len(batch.content) = 2
             /\ batch.content[1].is_error
             /\ ~batch.content[2].is_error

\* the tool-use identifiers of the assistant turns of a conversation, in order
RECURSIVE ConcatIds(_)
ConcatIds(msgs) ==
    IF msgs = <<>> THEN <<>>
    ELSE LET m == msgs[Len(msgs)]
             before == ConcatIds(SubSeq(msgs, 1, Len(msgs) - 1))
         IN  IF m.role = "assistant" THEN before \o IdsOf(m.content) ELSE before

Iterating == pc \in {"round_tools", "force_tools"}

\* C6: the tool-use blocks of a response are executed in the order they
\* appear, each exactly once; the batch of results lists one result per
\* tool-use block in that order, the i-th with the identifier of the i-th
\* tool-use block; blocks that are not tool-use blocks are never executed.
C6_OrderAndIds ==
    /\ ExecIds =
          IF Iterating
          THEN ConcatIds(SubSeq(messages, 1, Len(messages) - 1))
               \o IdsOf(SubSeq(current_response.content, 1, idx - 1))
          ELSE ConcatIds(messages)
    /\ \A i \in DOMAIN ExecIds : Count(ExecIds, ExecIds[i]) = 1
    /\ Iterating =>
          /\ Len(tool_results) = Len(IdsOf(SubSeq(current_response.content, 1, idx - 1)))
          /\ \A j \in DOMAIN tool_results :
                tool_results[j].tool_use_id
                   = IdsOf(SubSeq(current_response.content, 1, idx - 1))[j]
    /\ \A p \in DOMAIN messages :
          messages[p].kind = "tool_results" =>
             /\ Len(messages[p].content) = Len(IdsOf(messages[p - 1].content))
             /\ \A j \in DOMAIN messages[p].content :
                   messages[p].content[j].tool_use_id = IdsOf(messages[p - 1].content)[j]

C6_Witness ==
    /\ pc = "done"
    /\ \E p \in DOMAIN messages :
          /\ messages[p].kind = "tool_results"
          /\ Len(messages[p].content) = 2
    /\ \E p \in DOMAIN messages :
          /\ messages[p].role = "assistant"
          /\ Len(messages[p].content) = 2
          /\ Len(IdsOf(messages[p].content)) = 1
          /\ messages[p].content[2].type = "tool_use"

\* C7: a model call that raises - the first one, one inside a round or the
\* forced final one - never makes generate_response raise: it returns the
\* fixed apology.
C7_ModelCallFailureReturnsApology ==
    SomeCallRaised => pc = "done" /\ result = ErrorApology

\* the response the answer is taken from
AnswerResponse ==
    IF final_response # NoResponse THEN final_response ELSE current_response

\* C8: when the response the answer is taken from has no content block, or no
\* block with a non-empty text, generate_response returns the generic apology
\* and does not raise, on the direct path as after tool rounds.
C8_NoTextReturnsApology ==
    (Terminated /\ ~SomeCallRaised /\ ~HasText(AnswerResponse.content)) =>
       pc = "done" /\ result = NoTextApology

\* C9: without a tool registry no tool is ever executed and exactly one model
\* call is made, even when tool schemas were given and the response has stop
\* reason tool_use.
C9_OptInPerCall ==
    ~tool_manager =>
       /\ executed = <<>>
       /\ batches = 0
       /\ Len(calls) <= 1
       /\ Terminated => Len(calls) = 1

C9_Witness ==
    /\ ~tool_manager /\ tools /\ Terminated
    /\ current_response.stop_reason = "tool_use"
    /\ Len(IdsOf(current_response.content)) > 0

(***************************************************************************)
(* Properties of the tool registry                                         *)
(***************************************************************************)
IsRegistered(t) == \E i \in DOMAIN registry : registry[i].tool = t

\* C10: right after an execution dispatched through the registry, the stored
\* citations are exactly the ones that execution produced: none when it
\* returned an error, found no match or was not a content search.
C10_CitationsOverwritten ==
    last_op = "execute" =>
       \A t \in TrackingTools :
          IsRegistered(t) =>
             last_sources[t] = (IF last_exec.tool = t THEN last_exec.produced ELSE <<>>)

\* the registered tool objects that have a last_sources attribute
RegisteredTracking == {t \in TrackingTools : IsRegistered(t)}

\* C11: right after reset_sources every registered tool with citation state
\* holds an empty list and get_last_sources returns an empty list, whatever
\* registrations and executions came before; the call changes nothing else.
C11_ResetClears ==
    [][last_op' = "reset" =>
          /\ \A t \in TrackingTools :
                (\E i \in DOMAIN registry' : registry'[i].tool = t) =>
                   last_sources'[t] = <<>>
          /\ get_last_sources(registry', last_sources') = <<>>
          /\ registry' = registry
          /\ \A t \in TrackingTools \ RegisteredTracking :
                last_sources'[t] = last_sources[t]]_vars

C11_Witness ==
    /\ last_op = "reset"
    /\ cleared = TrackingTools
    /\ IsRegistered("outline")

\* C12: get_last_sources returns the citations of the tool that populated
\* its citation state most recently: right after an execution that produced
\* citations it returns those citations, whatever the registration order,
\* and it returns an empty list when no registered tool holds citations.
C12_MostRecentlyPopulated ==
    /\ (last_op = "execute" /\ last_exec.stores) =>
          get_last_sources(registry, last_sources) = last_exec.produced
    /\ (\A t \in RegisteredTracking : last_sources[t] = <<>>) =>
          get_last_sources(registry, last_sources) = <<>>

\* the tool_result the loop records for a request of an unregistered tool
NotFoundResult(block) ==
    [type |-> "tool_result", tool_use_id |-> block.id,
     content |-> "Tool '" \o block.name \o "' not found", is_error |-> FALSE]

\* a content block that asks for a tool the table does not hold
AsksUnknown(block) ==
    block.type = "tool_use" /\ \A i \in 1..Len(registry) : registry[i].name # block.name

\* the loop hands the block at idx to execute_tool in this step
LoopExecutes ==
    /\ pc \in {"round_tools", "force_tools"}
    /\ Len(executed') = Len(executed) + 1

\* the request of an unregistered tool in the i-th turn of the conversation
\* is still in the batch being executed, or its not-found result is in the
\* next turn and that conversation is about to be sent or has been sent to
\* the model
Continues(i, block) ==
    \/ /\ i = Len(messages)
       /\ pc \in {"round_tools", "force_tools"}
    \/ /\ i < Len(messages)
       /\ messages[i + 1].kind = "tool_results"
       /\ \E j \in DOMAIN messages[i + 1].content :
             messages[i + 1].content[j] = NotFoundResult(block)
       /\ \/ Len(messages) = i + 1 /\ pc \in {"round_call", "final_call"}
          \/ \E k \in DOMAIN calls :
                /\ k >= 2
                /\ Len(calls[k].messages) = i + 1
                /\ \A n \in 1..(i + 1) : calls[k].messages[n] = messages[n]

C14_Inv ==
    \A i \in DOMAIN messages :
        messages[i].kind = "blocks" =>
           \A j \in DOMAIN messages[i].content :
               AsksUnknown(messages[i].content[j]) => Continues(i, messages[i].content[j])

C14_Step ==
    /\ (last_op' = "execute" /\ last_exec' # last_exec
           /\ last_exec'.name \notin RegisteredNames(registry)) =>
          /\ last_exec'.output = "Tool '" \o last_exec'.name \o "' not found"
          /\ ~last_exec'.raised
          /\ last_exec'.tool = "none"
          /\ registry' = registry
          /\ last_sources' = last_sources
    /\ (LoopExecutes /\ AsksUnknown(current_response.content[idx])) =>
          /\ last_op' = "execute"
          /\ last_exec'.name = current_response.content[idx].name
          /\ last_exec'.kind = "not_found"
          /\ tool_results' =
                Append(tool_results, NotFoundResult(current_response.content[idx]))
          /\ ~executed'[Len(executed')].raised
          /\ pc' = pc
          /\ idx' = idx + 1

\* C14: execute_tool with a name that is not in the table returns
\* "Tool '<name>' not found", raises nothing, executes no tool and leaves the
\* table and every citation list as they were; in the tool loop and in forced
\* finalization that text is recorded as a tool result that is not
\* error-tagged, the rest of the batch is still executed, and the
\* conversation with that result is sent to the model in the next call.
C14_UnknownToolNotFound == []C14_Inv /\ [][C14_Step]_vars

\* a search of the response has left citations, the request of the unknown
\* tool after it got the not-found result, and the next call was answered
C14_Witness ==
    /\ pc = "done"
    /\ result = AnswerText
    /\ Len(calls) = 2
    /\ last_exec.name = UnknownName
    /\ last_exec.kind = "not_found"
    /\ last_sources["search"] # <<>>
    /\ calls[2].messages[3].content[2] =
          [type |-> "tool_result", tool_use_id |-> 12,
           content |-> "Tool 'nonexistent_tool' not found", is_error |-> FALSE]

\* a definition with a missing or an empty name
Unnamed(t) == definition_name(t) = NoneStr \/ definition_name(t) = ""

\* C15: register_tool raises ValueError for a tool whose definition has a
\* missing or an empty name and leaves the table unchanged; a tool with a
\* non-empty name is stored under exactly that name and execute_tool of
\* that name dispatches to it.
C15_RegisterChecksName ==
    [][last_op' = "register" =>
          LET t == last_reg'.tool
              n == definition_name(t)
          IN  IF Unnamed(t)
              THEN last_reg'.raised /\ registry' = registry
              ELSE /\ ~last_reg'.raised
                   /\ \E i \in DOMAIN registry' : registry'[i] = [name |-> n, tool |-> t]
                   /\ \A i \in DOMAIN registry' : registry'[i].tool = t => registry'[i].name = n
                   /\ \A in \in InputsOf(n) : execute_tool(registry', n, in).tool = t]_vars

C15_Witness ==
    /\ last_op = "register"
    /\ last_reg.tool \in {"nameless", "unnamed"}
    /\ last_reg.raised
    /\ Len(registry) >= 2

\* C16: last registration wins: a registration under a name already in the
\* table does not raise and replaces the tool; the table holds one tool per
\* distinct name, the most recently registered one, execute_tool dispatches
\* to it and get_tool_definitions has one definition per distinct name.
C16_LastRegistrationWins ==
    LET names == {n \in DeclaredNames : latest[n] # "none"}
        defs  == get_tool_definitions(registry)
    IN  /\ \A i, j \in DOMAIN registry : registry[i].name = registry[j].name => i = j
        /\ {registry[i].name : i \in DOMAIN registry} = names
        /\ \A i \in DOMAIN registry : registry[i].tool = latest[registry[i].name]
        /\ (last_op = "register" /\ ~Unnamed(last_reg.tool)) => ~last_reg.raised
        /\ (last_op = "execute" /\ last_exec.name \in names) =>
              last_exec.tool = latest[last_exec.name]
        /\ Len(defs) = Cardinality(names)
        /\ {defs[i].name : i \in DOMAIN defs} = names

C16_Witness ==
    /\ last_op = "register"
    /\ last_reg.previous = "outline"
    /\ last_reg.tool = "outline_b"
    /\ ~last_reg.raised
    /\ Len(registry) = 3

(***************************************************************************)
(* Properties of CourseSearchTool.execute                                  *)
(***************************************************************************)
\* the result set carries an error
HasError(results) == results.error # NoneStr /\ results.error # ""

\* the latest step was a CourseSearchTool.execute call on search_in
Searched == last_op = "execute" /\ last_exec.tool = "search"

\* C17: when the result set carries an error, execute returns exactly that
\* error text, raises nothing and formats no results: the citations stay as
\* they were.
C17_ErrorReturnedVerbatim ==
    [][(last_op' = "execute" /\ last_exec'.tool = "search"
          /\ HasError(search_in.results)) =>
          /\ last_exec'.output = search_in.results.error
          /\ ~last_exec'.raised
          /\ last_exec'.kind = "error"
          /\ last_exec'.produced = <<>>
          /\ last_sources' = last_sources]_vars

C17_Witness ==
    /\ Searched
    /\ search_in.results.error = SearchError
    /\ last_exec.output = SearchError
    /\ last_sources["search"] = StaleSources

\* a filter argument was supplied
CourseGiven == search_in.course_name # NoneStr /\ search_in.course_name # ""
LessonGiven == search_in.lesson_number # NoLesson

\* C18: for an error-free empty result set execute returns 'No relevant
\* content found', then " in course '<course_name>'" when a course name was
\* given, then " in lesson <n>" when a lesson number was given, 0 included,
\* then a period.
C18_EmptyMessageNamesFilters ==
    (Searched /\ ~HasError(search_in.results) /\ Len(search_in.results.matches) = 0) =>
       last_exec.output =
          "No relevant content found"
          \o (IF CourseGiven THEN " in course '" \o search_in.course_name \o "'" ELSE "")
          \o (IF LessonGiven THEN " in lesson " \o ToString(search_in.lesson_number[1])
              ELSE "")
          \o "."

\* the orders in which n matches can be listed
Perms(n) == {p \in [1..n -> 1..n] : \A i, j \in 1..n : p[i] = p[j] => i = j}

\* match a may be listed before match b
MayPrecede(a, b) ==
    \/ a.meta.lesson_number = NoLesson
    \/ /\ b.meta.lesson_number # NoLesson
       /\ a.meta.lesson_number[1] <= b.meta.lesson_number[1]

RECURSIVE JoinWith(_, _)
JoinWith(texts, sep) ==
    IF texts = <<>> THEN ""
    ELSE IF Len(texts) = 1 THEN texts[1]
    ELSE texts[1] \o sep \o JoinWith(Tail(texts), sep)

FoundMatches == Searched /\ Len(search_in.results.matches) >= 1

\* C19: the output of a non-empty result set lists the matches in
\* non-decreasing lesson-number order, every match without a lesson number
\* before every match with one.
C19_SortedByLesson ==
    FoundMatches =>
       LET ms == search_in.results.matches
       IN  \E p \in Perms(Len(ms)) :
              /\ \A i, j \in 1..Len(ms) : i < j => MayPrecede(ms[p[i]], ms[p[j]])
              /\ last_exec.output =
                    JoinWith([i \in 1..Len(ms) |-> format_block(ms[p[i]])], "\n\n")

C19_Witness ==
    /\ FoundMatches
    /\ Len(search_in.results.matches) = 3
    /\ search_in.results.matches[1].meta.lesson_number = Lesson(2)
    /\ search_in.results.matches[2].meta.lesson_number = NoLesson
    /\ search_in.results.matches[3].meta.lesson_number = Lesson(0)

\* the display text of the citation of a match
CitationText(m) ==
    (IF m.meta.course_title = NoneStr THEN "unknown" ELSE m.meta.course_title)
    \o (IF m.meta.lesson_number = NoLesson THEN ""
        ELSE " - Lesson " \o ToString(m.meta.lesson_number[1]))

\* C20: after a search that found N >= 1 matches the tool holds exactly N
\* citations, one per match and none merged, in the order of the blocks of
\* the output, and the header of the i-th block is '[' + the text of the
\* i-th citation + ']'.
C20_OneCitationPerMatch ==
    FoundMatches =>
       LET ms   == search_in.results.matches
           cits == last_sources["search"]
       IN  /\ Len(cits) = Len(ms)
           /\ \E p \in Perms(Len(ms)) :
                 /\ \A i \in 1..Len(ms) : cits[i].text = CitationText(ms[p[i]])
                 /\ last_exec.output =
                       JoinWith([i \in 1..Len(ms) |->
                                   "[" \o cits[i].text \o "]\n" \o ms[p[i]].doc], "\n\n")

C20_Witness ==
    /\ FoundMatches
    /\ Len(search_in.results.matches) = 3
    /\ Len(last_sources["search"]) = 3
    /\ last_sources["search"][1] = last_sources["search"][2]
    /\ last_sources["search"][2] # last_sources["search"][3]
    /\ last_sources["search"][3].link # NoneStr

(***************************************************************************)
(* Properties of two queries in parallel                                   *)
(***************************************************************************)
HasRead(q) == queries[q].pc \in {"reset", "done"}

\* the sources returned with the answer of q were produced by the other query
ReadOthers(q) ==
    /\ HasRead(q)
    /\ queries[q].read # <<>>
    /\ queries[q].from = Other(q)
    /\ queries[q].read # queries[q].own

\* the citations of q were emptied before q read them
ReadCleared(q) ==
    /\ HasRead(q)
    /\ queries[q].read = <<>>
    /\ queries[q].own # <<>>

\* C13: with two queries in parallel on one search tool and one registry
\* the citation state is a cross-query race: a query whose steps do not
\* interleave with the other's reads its own citations, and a query reads
\* anything else only in an interleaving, where it reads the citations the
\* other query produced or finds its own citations emptied; C13_Witness is
\* an interleaving in which both happen.
C13_CrossQueryRace ==
    \A q \in Queries :
       HasRead(q) =>
          \/ queries[q].read = queries[q].own
          \/ overlapped /\ (ReadOthers(q) \/ ReadCleared(q))

C13_Witness ==
    /\ overlapped
    /\ \A q \in Queries : queries[q].pc = "done"
    /\ ReadOthers(1)
    /\ ReadCleared(2)

(***************************************************************************)
(* Properties of the lesson-link lookup                                    *)
(***************************************************************************)
\* the link the catalog lists for a match, when the lookup can succeed
ListedLink(catalog, m) ==
    IF /\ catalog = "ok"
       /\ m.meta.course_title = CourseTitle
       /\ m.meta.lesson_number # NoLesson
       /\ \E k \in DOMAIN CatalogLessons :
             CatalogLessons[k].lesson_number = m.meta.lesson_number[1]
    THEN CatalogLessons[CHOOSE k \in DOMAIN CatalogLessons :
                          CatalogLessons[k].lesson_number = m.meta.lesson_number[1]].lesson_link
    ELSE NoneStr

\* C21: a failing lesson-link lookup (the catalog raises, has no record of
\* the course, has no or an unparsable lesson list, or does not list the
\* lesson) never fails the search: execute returns the text of all matches
\* and the citation of the affected match is stored with no link.
C21_LinkLookupNeverFails ==
    FoundMatches =>
       LET ms   == search_in.results.matches
           cits == last_sources["search"]
       IN  /\ ~last_exec.raised
           /\ last_exec.kind = "matches"
           /\ Len(cits) = Len(ms)
           /\ \E p \in Perms(Len(ms)) :
                 /\ last_exec.output =
                       JoinWith([i \in 1..Len(ms) |->
                                   "[" \o CitationText(ms[p[i]]) \o "]\n" \o ms[p[i]].doc],
                                "\n\n")
                 /\ \A i \in 1..Len(ms) :
                       cits[i].link = ListedLink(search_in.catalog, ms[p[i]])

C21_Witness ==
    /\ FoundMatches
    /\ search_in.catalog = "bad_json"
    /\ Len(search_in.results.matches) = 2
    /\ \A i \in 1..2 : search_in.results.matches[i].meta.lesson_number = Lesson(2)
    /\ \A i \in 1..2 : search_in.results.matches[i].meta.course_title = CourseTitle
    /\ \A i \in 1..2 : last_sources["search"][i].link = NoneStr

\* CourseOutlineTool.execute has returned or raised
Outlined == last_op = "execute" /\ last_exec.tool = "outline"

\* C22: when the course name of an outline request cannot be resolved, the
\* call returns exactly "No course found matching '<course_name>'", asks the
\* catalog for no record and leaves the citations of every tool as they were
C22_UnresolvedOutline ==
    [][(last_op' = "execute" /\ last_exec'.tool = "outline"
        /\ (search_in.resolved = NoneStr \/ search_in.resolved = ""))
       => /\ ~last_exec'.raised
          /\ last_exec'.output = "No course found matching '" \o search_in.course_name \o "'"
          /\ last_exec'.lookups = 0
          /\ last_exec'.produced = <<>>
          /\ last_sources' = last_sources]_vars

C22_Witness ==
    /\ Outlined
    /\ search_in.resolved = NoneStr
    /\ search_in.course_name = "MCP"
    /\ search_in.catalog = "ok"
    /\ last_exec.output = "No course found matching 'MCP'"
    /\ last_sources["search"] = StaleSources

\* C23: whatever fails while the outline is looked up, the outline call
\* returns an error string and never raises
C23_OutlineNeverRaises ==
    Outlined => ~last_exec.raised

\* the part of C23 the code keeps: a failure of the catalog read or of the
\* parsing of the lesson list comes back as a string
OutlineCatalogFailureReturned ==
    (Outlined /\ search_in.resolved = CourseTitle
              /\ search_in.catalog \in {"raises", "bad_json"})
    => /\ ~last_exec.raised
       /\ \E msg \in {"catalog failure", "Expecting value: line 1 column 1 (char 0)"} :
             last_exec.output = "Error retrieving course outline: " \o msg
\* C24: every model call of a query has the fixed instructions as its system
\* content, followed by "\n\nPrevious conversation:\n" and the history text
\* when a non-empty history was supplied and by nothing otherwise; the history
\* is in no turn: the first call's conversation is the one user turn with the query
C24_HistoryInSystemOnly ==
    /\ \A i \in DOMAIN calls :
          calls[i].system =
              SYSTEM_PROMPT
              \o (IF conversation_history \in {NoneStr, ""} THEN ""
                  ELSE "\n\nPrevious conversation:\n" \o conversation_history)
    /\ calls # <<>> =>
          calls[1].messages = <<[role |-> "user", kind |-> "query", text |-> Query,
                                 content |-> <<>>]>>

C24_Witness ==
    /\ Len(calls) = 3
    /\ conversation_history = "User: Previous question\nAssistant: Previous answer"
    /\ calls[3].system = SYSTEM_PROMPT
                          \o "\n\nPrevious conversation:\n"
                          \o "User: Previous question\nAssistant: Previous answer"
    /\ Len(calls[1].messages) = 1
\* C25: constructing the adapter with a maximum of zero or less fails with
\* 'max_results must be positive' and yields no adapter; with a positive
\* maximum, 1 and 1000 included, it succeeds and stores exactly that maximum
C25_PositiveMaxResults ==
    store.pc # "none" /\ store.pc # "new" =>
        IF store.arg <= 0
        THEN /\ store.pc = "failed"
             /\ store.error = "max_results must be positive"
             /\ store.max_results = <<>>
             /\ store.n_results = <<>>
        ELSE /\ store.pc \in {"built", "searched"}
             /\ store.error = NoneStr
             /\ store.max_results = <<store.arg>>

C25_Witness ==
    /\ store.pc = "failed"
    /\ store.arg = 0
    /\ store.error = "max_results must be positive"
    /\ store.max_results = <<>>

\* C26: a search with an explicit limit, 0 included, asks the collection for
\* exactly that many results; a search without a limit asks for the
\* configured maximum
C26_ExplicitLimitHonoured ==
    store.pc = "searched" =>
        /\ store.limit = <<>> => store.n_results = store.max_results
        /\ store.limit # <<>> => store.n_results = store.limit

C26_Witness ==
    /\ store.pc = "searched"
    /\ store.limit = <<0>>
    /\ store.n_results = <<0>>
    /\ store.max_results = <<3>>
\* the conversation of call i + 1 is the conversation of call i, then the
\* content of the response to call i as one assistant turn, then one user
\* turn with one result per tool-use block of that response, in order
GrowsByOneRound(i) ==
    LET prev == calls[i].messages
        cur  == calls[i + 1].messages
    IN  /\ Len(cur) = Len(prev) + 2
        /\ SubSeq(cur, 1, Len(prev)) = prev
        /\ cur[Len(prev) + 1] = [role |-> "assistant", kind |-> "blocks", text |-> "",
                                 content |-> calls[i].reply]
        /\ cur[Len(prev) + 2].role = "user"
        /\ cur[Len(prev) + 2].kind = "tool_results"
        /\ LET batch == cur[Len(prev) + 2].content
           IN  /\ batch # <<>>
               /\ [k \in 1..Len(batch) |-> batch[k].tool_use_id] = IdsOf(calls[i].reply)

\* C27: the conversation of every model call of a query extends the
\* conversation of the call before it by exactly one assistant turn, the
\* content of the previous response, and one user turn that holds all tool
\* results of the round as one batch
C27_ConversationGrowsByRound ==
    \A i \in 1..(Len(calls) - 1) : GrowsByOneRound(i)

\* the part of C27 the code keeps: every call extends the conversation of
\* the call before it, and by the two turns of the round whenever the
\* previous response holds a tool-use block
ConversationGrowsWithToolUse ==
    \A i \in 1..(Len(calls) - 1) :
        /\ SubSeq(calls[i + 1].messages, 1, Len(calls[i].messages)) = calls[i].messages
        /\ IdsOf(calls[i].reply) # <<>> => GrowsByOneRound(i)
\* a model call of this query has failed
CallFailed == \E i \in DOMAIN calls : calls[i].raised

\* C28: nothing is retried. A failed model call is the last call of the
\* query and no tool is executed after it, and no tool-use block is handed
\* to execute_tool twice, whether its execution returned or raised
C28_Inv ==
    /\ \A i \in DOMAIN calls : calls[i].raised => i = Len(calls)
    /\ \A i, j \in DOMAIN executed : executed[i].id = executed[j].id => i = j

C28_Step == CallFailed => calls' = calls /\ executed' = executed

C28_NoRetry == []C28_Inv /\ [][C28_Step]_vars

C28_Witness ==
    /\ pc = "done"
    /\ Len(calls) = 2
    /\ calls[2].raised
    /\ Len(executed) = 2
    /\ executed[1].raised
    /\ ~executed[2].raised
\* C29: the first model call carries tools and tool choice auto exactly when
\* a non-empty tool list was supplied; every call after a tool round, the
\* calls 2 .. MAX_TOOL_ROUNDS + 1, carries what was supplied (the schemas, or
\* none when none were supplied) with tool choice auto
C29_ToolsInFollowUpRounds ==
    \A i \in DOMAIN calls :
        /\ i = 1 =>
              /\ calls[i].tools = "schemas" <=> tools
              /\ calls[i].tool_choice = "auto" <=> tools
              /\ ~tools => calls[i].tools = "absent" /\ calls[i].tool_choice = "absent"
        /\ (2 <= i /\ i <= MAX_TOOL_ROUNDS + 1) =>
              /\ calls[i].tool_choice = "auto"
              /\ calls[i].tools = (IF tools THEN "schemas" ELSE "none")

C29_Witness ==
    /\ tools
    /\ Len(calls) = MAX_TOOL_ROUNDS + 1
    /\ \A i \in 1..(MAX_TOOL_ROUNDS + 1) :
          calls[i].tools = "schemas" /\ calls[i].tool_choice = "auto"
    /\ Len(executed) >= MAX_TOOL_ROUNDS
\* query q makes its first tool execution in this step
FirstExecution(q) == queries[q].execs = 0 /\ queries'[q].execs = 1

\* C30: with the queries processed one at a time, each by generate_response,
\* then get_last_sources, then reset_sources, every tool's citations are empty
\* immediately before the first tool execution of every query, also after a
\* query that failed, and what a query reads is what its own execution stored
C30_Inv ==
    \A q \in Queries :
        queries[q].pc \in {"reset", "done"} =>
            /\ queries[q].read = queries[q].own
            /\ queries[q].from \in {0, q}

C30_Step ==
    \A q \in Queries :
        FirstExecution(q) => \A t \in TrackingTools : last_sources[t] = <<>>

C30_NoStaleAcrossQueries == []C30_Inv /\ [][C30_Step]_vars

C30_Witness ==
    /\ queries[1].pc = "done"
    /\ queries[1].read # <<>>
    /\ queries[2].pc = "done"
    /\ queries[2].execs > 0
    /\ queries[2].read = <<>>
    /\ \A t \in TrackingTools : last_sources[t] = <<>>
\* a round is processing a response that holds no tool-use block
EmptyRound == pc = "round_tools" /\ IdsOf(current_response.content) = <<>>

\* C31: a response with stop reason tool_use and no tool-use block that a
\* round processes aborts the round: no tool is executed, no tool-result turn
\* is appended, no model call is issued, and the query ends with the first
\* non-empty text of that response, or with the generic apology without one
C31_Inv == pc = "round_tools" => current_response.stop_reason = "tool_use"

C31_Step ==
    EmptyRound =>
        /\ calls' = calls
        /\ executed' = executed
        /\ messages' = messages
        /\ pc' \in {"round_tools", "done"}
        /\ pc' = "done" => result' = FirstNonEmptyText(current_response.content)

C31_EmptyRoundAborts == []C31_Inv /\ [][C31_Step]_vars

C31_Witness ==
    /\ pc = "done"
    /\ Len(calls) = 2
    /\ current_response.stop_reason = "tool_use"
    /\ current_response.content = calls[2].reply
    /\ Len(current_response.content) = 1
    /\ current_response.content[1].type = "text"
    /\ result = current_response.content[1].text
    /\ result # ""
    /\ Len(messages) = 4
    /\ messages[4].role = "assistant"
\* the loop is about to read the type of a block that has none
AtMalformedBlock ==
    /\ pc \in {"round_tools", "force_tools"}
    /\ idx \in DOMAIN current_response.content
    /\ current_response.content[idx].type = "<no type attribute>"

\* C32: the text returned on a failure is the same fixed apology whatever
\* the message of the exception: after a model call of the loop or of forced
\* finalization failed with any message, and after an unexpected exception
\* inside the loop, the answer is the fixed apology; no returned answer is
\* anything but a text of the model (the answer text or the empty text of a
\* first block) or one of the two fixed apologies
C32_Inv ==
    /\ \A k \in DOMAIN calls :
          (calls[k].raised /\ pc = "done") =>
              /\ calls[k].error \in {"Connection timeout", "invalid x-api-key"}
              /\ result = ErrorApology
    /\ result \in {NoResult, AnswerText, "", ErrorApology, NoTextApology}

C32_Step == AtMalformedBlock => pc' = "done" /\ result' = ErrorApology

C32_NoTechnicalDetail == []C32_Inv /\ [][C32_Step]_vars

C32_Witness ==
    /\ pc = "done"
    /\ Len(calls) = MAX_TOOL_ROUNDS + 2
    /\ calls[Len(calls)].raised
    /\ calls[Len(calls)].error = "invalid x-api-key"
    /\ \E i \in DOMAIN executed : executed[i].raised
    /\ result = ErrorApology
\* what the lesson number of a match adds to its header and its citation
LessonSuffix(m) ==
    IF m.meta.lesson_number = NoLesson THEN ""
    ELSE " - Lesson " \o ToString(m.meta.lesson_number[1])

\* C33: the header and the citation text of a match end in ' - Lesson <n>'
\* exactly when the match has a lesson number, 0 included; a match without
\* one shows the course title alone; and the catalog is asked for a lesson
\* link once for every match with a lesson number, 0 included, and never for
\* a match without one
C33_LessonShownIffPresent ==
    FoundMatches =>
       LET ms   == search_in.results.matches
           cits == last_sources["search"]
           title(m) == IF m.meta.course_title = NoneStr THEN "unknown"
                       ELSE m.meta.course_title
       IN  /\ Len(cits) = Len(ms)
           /\ \E p \in Perms(Len(ms)) :
                 /\ \A i \in 1..Len(ms) :
                       cits[i].text = title(ms[p[i]]) \o LessonSuffix(ms[p[i]])
                 /\ last_exec.output =
                       JoinWith([i \in 1..Len(ms) |->
                                   "[" \o title(ms[p[i]]) \o LessonSuffix(ms[p[i]]) \o "]\n"
                                   \o ms[p[i]].doc], "\n\n")
           /\ last_exec.lookups =
                 Cardinality({i \in 1..Len(ms) : ms[i].meta.lesson_number # NoLesson})

C33_Witness ==
    /\ FoundMatches
    /\ Len(search_in.results.matches) = 2
    /\ search_in.results.matches[1].meta.lesson_number = Lesson(0)
    /\ search_in.results.matches[2].meta.lesson_number = NoLesson
    /\ search_in.results.matches[1].meta.course_title = CourseTitle
    /\ search_in.results.matches[2].meta.course_title = CourseTitle
    /\ last_sources["search"][1].text = CourseTitle
    /\ last_sources["search"][2].text = CourseTitle \o " - Lesson 0"
    /\ last_exec.lookups = 1
\* a conversation a model call can be issued with: the user turn with the
\* query first, user and assistant turns in strict alternation, a user turn last
WellFormed(msgs) ==
    /\ Len(msgs) >= 1
    /\ msgs[1] = [role |-> "user", kind |-> "query", text |-> Query, content |-> <<>>]
    /\ \A i \in 1..(Len(msgs) - 1) : msgs[i].role # msgs[i + 1].role
    /\ \A i \in 1..Len(msgs) : msgs[i].role \in {"user", "assistant"}
    /\ msgs[Len(msgs)].role = "user"

\* C34: every model call of a query, the forced final call included, is
\* issued with a conversation that starts with the user turn holding the
\* query, alternates user and assistant turns and ends with a user turn
C34_WellFormedConversation ==
    \A k \in DOMAIN calls : WellFormed(calls[k].messages)

\* the part of C34 the code keeps: the first call and the calls of the rounds
\* are issued with a well-formed conversation, and so is the forced final
\* call when the response that hit the round cap holds a tool-use block
WellFormedButEmptyForced ==
    \A k \in DOMAIN calls :
        \/ WellFormed(calls[k].messages)
        \/ /\ k = MAX_TOOL_ROUNDS + 2
           /\ IdsOf(calls[k - 1].reply) = <<>>
           /\ calls[k].messages[Len(calls[k].messages)].role = "assistant"
\* query q makes a tool execution in this step
Executes(q) == queries'[q].execs = queries[q].execs + 1

\* C35: citations do not accumulate. With the one content-search tool of the
\* system, an execution that found at least one match leaves exactly its own
\* citations as the stored ones, and every other execution (an error, no
\* match, an outline, an unknown tool name) leaves the stored citations as
\* they were; the sources a query's caller reads are the citations of the
\* query's last search that found a match, or none
C35_Inv ==
    \A q \in Queries :
        queries[q].pc \in {"reset", "done"} => queries[q].read = queries[q].hit

C35_Step ==
    \A q \in Queries :
        Executes(q) =>
            IF queries'[q].last_hit
            THEN /\ last_sources'["search"] = queries'[q].hit
                 /\ \A t \in TrackingTools \ {"search"} : last_sources'[t] = last_sources[t]
            ELSE last_sources' = last_sources

C35_NoAccumulation == []C35_Inv /\ [][C35_Step]_vars

C35_Witness ==
    /\ queries[1].pc = "done"
    /\ queries[1].execs = 2
    /\ ~queries[1].last_hit
    /\ Len(queries[1].read) = 1
    /\ queries[1].read[1].link # NoneStr
    /\ queries[2].pc = "reset"
    /\ queries[2].execs = 2
    /\ queries[2].last_hit
    /\ Len(queries[2].read) = 1
    /\ queries[2].read[1].link = NoneStr
\* the first response asks for a tool and a registry was supplied
ToolLoopAhead ==
    pc = "first_got" /\ current_response.stop_reason = "tool_use" /\ tool_manager

\* C36: once the first response requests a tool and a registry is supplied,
\* generate_response does not raise, whatever the tools, the later model
\* calls and malformed contents do: it returns the answer text of a model
\* response or one of the two fixed apologies
C36_Inv ==
    round_num >= 1 =>
        /\ pc # "raised"
        /\ pc = "done" =>
              result \in {AnswerText, ErrorApology, NoTextApology}
        /\ pc # "done" => result = NoResult

C36_Step == ToolLoopAhead => round_num' = 1 /\ pc' = "round_tools"

C36_LoopNeverRaises == []C36_Inv /\ [][C36_Step]_vars

C36_Witness ==
    /\ pc = "done"
    /\ round_num = MAX_TOOL_ROUNDS
    /\ Len(calls) = MAX_TOOL_ROUNDS + 1
    /\ \E i \in DOMAIN executed : executed[i].raised
    /\ \E i \in DOMAIN current_response.content :
          current_response.content[i].type = "<no type attribute>"
    /\ result = ErrorApology

\* no registered tool holds citations: get_last_sources returns an empty list
NothingToRead ==
    \A i \in 1..Len(registry) :
        registry[i].tool \in TrackingTools => last_sources[registry[i].tool] = <<>>

\* the caller of query q resets the sources in this step
Resets(q) == queries[q].pc = "reset" /\ queries'[q].pc = "done"

\* this step is an execution of a content search that found a match
NewMatches == \E q \in Queries : Executes(q) /\ queries'[q].last_hit

\* C37: reset_sources leaves every citation list that get_last_sources has
\* returned as it was, so a caller that read and then reset still holds the
\* complete list it read; after the reset get_last_sources returns an empty
\* list, and it keeps returning one until a content search finds matches
C37_Step ==
    /\ \A q \in Queries : HasRead(q) => queries'[q].read = queries[q].read
    /\ \A q \in Queries : Resets(q) => NothingToRead'
    /\ (NothingToRead /\ ~NewMatches) => NothingToRead'

C37_ResetKeepsReturnedList == [][C37_Step]_vars

\* a caller has read the citation of its search and reset; it still holds
\* the citation while the tool holds none
C37_Witness ==
    \E q \in Queries :
        /\ queries[q].pc = "done"
        /\ queries[q].read # <<>>
        /\ queries[q].read = queries[q].hit
        /\ NothingToRead
        /\ \A o \in Queries : o # q => queries[o].pc = "run" /\ queries[o].execs = 0

\* the block of a match in the formatted output
BlockText(m) == "[" \o CitationText(m) \o "]\n" \o m.doc

\* the matches are listed in the order p, in the output and in the citations
ListedInOrder(ms, p) ==
    /\ last_exec.output = JoinWith([i \in 1..Len(ms) |-> BlockText(ms[p[i]])], "\n\n")
    /\ Len(last_sources["search"]) = Len(ms)
    /\ \A i \in 1..Len(ms) : last_sources["search"][i].text = CitationText(ms[p[i]])

\* the result set is in lesson order as the store returned it
AlreadyInLessonOrder(ms) ==
    \A i, j \in 1..Len(ms) : i < j => MayPrecede(ms[i], ms[j])

\* C38: the sort by lesson number is stable: matches with the same lesson
\* number, or both without one, are listed in the output and in the citations
\* in the order the result set has them, and a result set that is already in
\* lesson order is listed in its own order
C38_StableSort ==
    FoundMatches =>
       LET ms == search_in.results.matches
       IN  /\ \E p \in Perms(Len(ms)) :
                 /\ ListedInOrder(ms, p)
                 /\ \A i, j \in 1..Len(ms) :
                       (i < j /\ ms[p[i]].meta.lesson_number = ms[p[j]].meta.lesson_number)
                          => p[i] < p[j]
           /\ AlreadyInLessonOrder(ms) => ListedInOrder(ms, [i \in 1..Len(ms) |-> i])

\* two matches of lesson 2 with different titles, a match without a lesson
\* number between them: the sort moves the middle one to the front and the
\* two others keep their order
C38_Witness ==
    /\ FoundMatches
    /\ Len(search_in.results.matches) = 3
    /\ search_in.results.matches[1].meta = [course_title |-> CourseTitle,
                                            lesson_number |-> Lesson(2)]
    /\ search_in.results.matches[2].meta.lesson_number = NoLesson
    /\ search_in.results.matches[3].meta = [course_title |-> NoneStr,
                                            lesson_number |-> Lesson(2)]
    /\ last_sources["search"][2].text = "Intro to Programming - Lesson 2"
    /\ last_sources["search"][3].text = "unknown - Lesson 2"
====
